---- MODULE Spec2Model ----
(***************************************************************************)
(* A model of nim-usage-scanner: the NGC enrichment client (ngc_api.rs),   *)
(* the classifier / deduplicator (scanner.rs), the run_scan pipeline       *)
(* (main.rs), the report (models.rs), and configuration and cloning        *)
(* (config.rs, git_ops.rs).                                                *)
(*                                                                         *)
(* Strings are sequences of tokens; each token stands for a fixed piece of *)
(* text without '/', '.', '_' or upper-case letters unless it is that one  *)
(* character ("/", ".", "_") or is listed in to_lowercase_tok.             *)
(* Option<T> is a sequence of length at most one: None == <<>>,            *)
(* Some(x) == <<x>>.                                                       *)
(***************************************************************************)
EXTENDS Integers, Sequences, FiniteSets, TLC

VARIABLES
    rq,                \* get_with_retry: the state of the retry loop of one call
    client,            \* NgcClient: api_key and the three caches
    net,               \* the requests sent by the most recent client operation
    ret,               \* the most recent client operation and what it returned
    obs,               \* what the caller has observed of the lookups so far
    all_local,         \* run_scan: the container references the scans returned
    all_hosted,        \* run_scan: the hosted references the scans returned
    source_code,       \* NimFindings of the general-source category
    actions_workflow,  \* NimFindings of the workflow category
    pipe,              \* run_scan / enrich_all_findings: where the run stands
    report,            \* run_scan: the ScanReport, once it is built
    walk,              \* scan_directory: the tree, and the entries handled so far
    par,               \* par_iter().map().collect(): items, worker positions, results
    fs                 \* the working directory: the clone directories in it

retryVars == <<rq>>
clientVars == <<client, net, ret, obs>>
findingVars == <<all_local, all_hosted, source_code, actions_workflow>>
pipeVars == <<all_local, all_hosted, source_code, actions_workflow, pipe, report, walk,
              par, fs>>
vars == <<rq, client, net, ret, obs, all_local, all_hosted, source_code,
          actions_workflow, pipe, report, walk, par, fs>>

None == <<>>
Some(x) == <<x>>
is_some(o) == o # <<>>
unwrap(o) == o[1]

Ok(v) == [ok |-> TRUE, val |-> v]
Err(e) == [ok |-> FALSE, val |-> e]

(***************************************************************************)
(* HTTP retry layer: NgcClient::get_with_retry                             *)
(***************************************************************************)

MAX_RETRIES == 3

\* The outcome of one send(): an HTTP status, or TransportError for Err(e).
TransportError == 0
Statuses == {TransportError, 200, 204, 304, 400, 404, 429, 500, 503}

is_success(status) == status >= 200 /\ status <= 299
is_server_error(status) == status >= 500 /\ status <= 599

\* API keys: none configured, empty, usable, and one that HeaderValue::from_str
\* rejects (a key read with its trailing newline).
ApiKeys == {"", "nvapi-k", "nvapi-k\n"}
InvalidHeaderKeys == {"nvapi-k\n"}

\* auth_headers succeeds iff "Bearer <key>" is a legal header value.
auth_headers(api_key) == api_key \notin InvalidHeaderKeys

RECURSIVE pow2(_)
pow2(n) == IF n = 0 THEN 1 ELSE 2 * pow2(n - 1)

\* The loop state before the first attempt (last_error = None).
RetryLoopStart ==
    [state |-> "loop", attempt |-> 1, sent |-> 0, sleeps |-> <<>>,
     last_error |-> None, error |-> None, hist |-> <<>>]

\* get_with_retry up to the loop: auth_headers()? fails the call before any send.
RetryStart(api_key) ==
    IF auth_headers(api_key)
    THEN RetryLoopStart
    ELSE [RetryLoopStart EXCEPT !.state = "err",
                                !.error = Some([kind |-> "header", status |-> 0])]

\* for attempt in 1..=MAX_RETRIES: the step after a retryable outcome; leaving the
\* loop after the last attempt runs the final bail! with last_error.
RetryContinue(st) ==
    IF st.attempt < MAX_RETRIES
    THEN [st EXCEPT !.attempt = @ + 1]
    ELSE [st EXCEPT !.attempt = @ + 1, !.state = "err",
                    !.error = Some([kind |-> "exhausted", status |-> unwrap(st.last_error)])]

\* A mutant of Attempt: a client error is retried like a server error.
AttemptRetriesClientError(st, status) ==
    LET sent == [st EXCEPT !.sent = @ + 1, !.hist = Append(@, status)] IN
    IF status # TransportError /\ is_success(status)
    THEN [sent EXCEPT !.state = "ok"]
    ELSE RetryContinue([sent EXCEPT !.sleeps = Append(@, 1), !.last_error = Some(status)])

\* A mutant of Attempt: the success check is skipped on the last attempt, as if the
\* loop ran MAX_RETRIES - 1 times and fell through.
AttemptIgnoresLastSuccess(st, status) ==
    LET sent == [st EXCEPT !.sent = @ + 1, !.hist = Append(@, status)] IN
    IF status # TransportError /\ is_success(status) /\ st.attempt < MAX_RETRIES
    THEN [sent EXCEPT !.state = "ok"]
    ELSE IF status # TransportError /\ is_success(status)
    THEN RetryContinue([sent EXCEPT !.last_error = Some(status)])
    ELSE IF status = TransportError \/ status = 429 \/ is_server_error(status)
    THEN RetryContinue([sent EXCEPT !.sleeps = Append(@, 1), !.last_error = Some(status)])
    ELSE [sent EXCEPT !.state = "err",
                      !.error = Some([kind |-> "http", status |-> status])]

\* A mutant of Attempt: a 429 sleeps the flat second of a server error.
AttemptFlatBackoff(st, status) ==
    LET sent == [st EXCEPT !.sent = @ + 1, !.hist = Append(@, status)] IN
    IF status # TransportError /\ is_success(status)
    THEN [sent EXCEPT !.state = "ok"]
    ELSE IF status = TransportError \/ status = 429 \/ is_server_error(status)
    THEN RetryContinue([sent EXCEPT !.sleeps = Append(@, 1), !.last_error = Some(status)])
    ELSE [sent EXCEPT !.state = "err",
                      !.error = Some([kind |-> "http", status |-> status])]

\* A mutant of Attempt: last_error is written only while it is None.
AttemptKeepsFirstError(st, status) ==
    LET sent == [st EXCEPT !.sent = @ + 1, !.hist = Append(@, status)]
        kept == IF st.last_error = None THEN Some(status) ELSE st.last_error IN
    IF status # TransportError /\ is_success(status)
    THEN [sent EXCEPT !.state = "ok"]
    ELSE IF status = 429
    THEN RetryContinue([sent EXCEPT !.sleeps = Append(@, pow2(st.attempt)),
                                    !.last_error = kept])
    ELSE IF status = TransportError \/ is_server_error(status)
    THEN RetryContinue([sent EXCEPT !.sleeps = Append(@, 1), !.last_error = kept])
    ELSE [sent EXCEPT !.state = "err",
                      !.error = Some([kind |-> "http", status |-> status])]

\* One iteration of the loop body: send the request, look at the outcome.
Attempt(st, status) ==
    LET sent == [st EXCEPT !.sent = @ + 1, !.hist = Append(@, status)] IN
    IF status = TransportError
    THEN RetryContinue([sent EXCEPT !.last_error = Some(TransportError),
                                    !.sleeps = Append(@, 1)])
    ELSE IF is_success(status)
    THEN [sent EXCEPT !.state = "ok"]
    ELSE IF status = 429
    THEN RetryContinue([sent EXCEPT !.sleeps = Append(@, pow2(st.attempt)),
                                    !.last_error = Some(429)])
    ELSE IF is_server_error(status)
    THEN RetryContinue([sent EXCEPT !.sleeps = Append(@, 1),
                                    !.last_error = Some(status)])
    ELSE [sent EXCEPT !.state = "err",
                      !.error = Some([kind |-> "http", status |-> status])]

RECURSIVE RunRetry(_, _)
RunRetry(st, outcomes) ==
    IF st.state # "loop" \/ outcomes = <<>>
    THEN st
    ELSE RunRetry(Attempt(st, Head(outcomes)), Tail(outcomes))

\* The whole call, given what the remote answers to each attempt in turn.
get_with_retry(api_key, outcomes) == RunRetry(RetryStart(api_key), outcomes)

(***************************************************************************)
(* Strings as token sequences: the std::str operations the client uses.    *)
(***************************************************************************)

starts_with(s, p) == Len(p) <= Len(s) /\ SubSeq(s, 1, Len(p)) = p

contains(s, p) ==
    \E i \in 0..(Len(s) - Len(p)) : SubSeq(s, i + 1, i + Len(p)) = p

strip_prefix(s, p) ==
    IF starts_with(s, p) THEN Some(SubSeq(s, Len(p) + 1, Len(s))) ELSE None

RECURSIVE split(_, _)
split(s, sep) ==
    IF \E i \in 1..Len(s) : s[i] = sep
    THEN LET i == CHOOSE j \in 1..Len(s) :
                      s[j] = sep /\ \A k \in 1..(j - 1) : s[k] # sep
         IN <<SubSeq(s, 1, i - 1)>> \o split(SubSeq(s, i + 1, Len(s)), sep)
    ELSE <<s>>

to_lowercase_tok(t) ==
    CASE t = "Llama" -> "llama"
      [] t = "Dockerfile" -> "dockerfile"
      [] t = "AI-" -> "ai-"
      [] OTHER -> t
to_lowercase(s) == [i \in 1..Len(s) |-> to_lowercase_tok(s[i])]

\* str::replace for a one-token pattern and a one-token replacement.
replace(s, from, to) == [i \in 1..Len(s) |-> IF s[i] = from THEN to ELSE s[i]]

\* str::replace(pattern, ""): every occurrence of the token is removed.
RECURSIVE remove(_, _)
remove(s, tok) ==
    IF s = <<>> THEN <<>>
    ELSE IF Head(s) = tok THEN remove(Tail(s), tok)
    ELSE <<Head(s)>> \o remove(Tail(s), tok)

(***************************************************************************)
(* NgcClient: caches and the lookups behind them.                          *)
(***************************************************************************)

\* HashMap::insert
insert(map, k, v) == [x \in (DOMAIN map) \cup {k} |-> IF x = k THEN v ELSE map[x]]
EmptyMap == <<>>

\* NgcClient::new
NgcClient_new(api_key) ==
    [api_key |-> api_key, local_nim_cache |-> EmptyMap, hosted_nim_cache |-> EmptyMap,
     function_list_cache |-> None]

\* The request URLs, by endpoint.
RepoUrl(team, model) == [endpoint |-> "repos", path |-> <<team, model>>]
FunctionsUrl == [endpoint |-> "functions", path |-> <<>>]
VersionsUrl(function_id) == [endpoint |-> "versions", path |-> <<function_id>>]

\* What a client operation hands back: the client after it, its result, and the
\* requests it sent, in order.
Outcome(c, result, reqs) == [client |-> c, result |-> result, net |-> reqs]
Requests(url, r) == [i \in 1..r.sent |-> url]

NimPrefix == <<"nvcr.io", "/", "nim", "/">>

parse_image_url(image_url) ==
    LET stripped == strip_prefix(image_url, NimPrefix) IN
    IF stripped = None THEN None
    ELSE LET parts == split(unwrap(stripped), "/") IN
         IF Len(parts) >= 2 THEN Some(<<parts[1], parts[2]>>) ELSE None

\* resolve_latest_tag from the response on: r is what get_with_retry returned,
\* remote.body the body of a 2xx response.
resolve_latest_tag_response(c, image_url, url, remote, r) ==
    IF r.state # "ok"
    THEN Outcome(c, Err("request failed"), Requests(url, r))
    ELSE IF ~remote.body.json
    THEN Outcome(c, Err("Failed to parse NGC repo response"), Requests(url, r))
    ELSE IF remote.body.latest_tag = None
    THEN Outcome(c, Err("No latestTag in response"), Requests(url, r))
    ELSE Outcome([c EXCEPT !.local_nim_cache =
                                insert(@, image_url, unwrap(remote.body.latest_tag))],
                 Ok(unwrap(remote.body.latest_tag)), Requests(url, r))

\* resolve_latest_tag after the cache check: parsed is parse_image_url(image_url).
resolve_latest_tag_miss(c, image_url, parsed, remote) ==
    IF parsed = None
    THEN Outcome(c, Err("Failed to parse image URL"), <<>>)
    ELSE resolve_latest_tag_response(c, image_url,
                                     RepoUrl(unwrap(parsed)[1], unwrap(parsed)[2]),
                                     remote, get_with_retry(c.api_key, remote.outcomes))

\* A mutant of resolve_latest_tag: the cache is never read.
resolve_latest_tag_no_cache(c, image_url, remote) ==
    resolve_latest_tag_miss(c, image_url, parse_image_url(image_url), remote)

\* remote = [outcomes: what each attempt gets, body: the body of the 2xx response].
resolve_latest_tag(c, image_url, remote) ==
    IF image_url \in DOMAIN c.local_nim_cache
    THEN Outcome(c, Ok(c.local_nim_cache[image_url]), <<>>)
    ELSE resolve_latest_tag_miss(c, image_url, parse_image_url(image_url), remote)

\* Deserialization into Vec<NgcFunctionSummary>: id, name, status.
function_summaries(functions) ==
    [i \in 1..Len(functions) |->
        [id |-> functions[i].id, name |-> functions[i].name,
         status |-> functions[i].status, container_image |-> None]]

\* fetch_function_list from the response on.
\* remote.body = [json, functions: the summaries {id, name, status} of the list].
fetch_function_list_response(c, remote, r) ==
    IF r.state # "ok"
    THEN Outcome(c, Err("request failed"), Requests(FunctionsUrl, r))
    ELSE IF ~remote.body.json
    THEN Outcome(c, Err("Failed to parse function list response"),
                 Requests(FunctionsUrl, r))
    ELSE Outcome([c EXCEPT !.function_list_cache =
                                Some(function_summaries(remote.body.functions))],
                 Ok(function_summaries(remote.body.functions)),
                 Requests(FunctionsUrl, r))

\* A mutant of fetch_function_list: the kept list is never read.
fetch_function_list_no_cache(c, remote) ==
    fetch_function_list_response(c, remote, get_with_retry(c.api_key, remote.outcomes))

fetch_function_list(c, remote) ==
    IF is_some(c.function_list_cache)
    THEN Outcome(c, Ok(unwrap(c.function_list_cache)), <<>>)
    ELSE fetch_function_list_response(c, remote,
                                      get_with_retry(c.api_key, remote.outcomes))

\* The names find_function_by_model derives from the model name.
short_name_of(model_name) == split(model_name, "/")[Len(split(model_name, "/"))]
normalized_name_of(model_name) == replace(to_lowercase(short_name_of(model_name)), ".", "_")

\* The match test of find_function_by_model for one function of the list.
is_match(func_name_lower, short_name_lower, normalized_name) ==
    \/ func_name_lower = <<"ai-">> \o normalized_name
    \/ starts_with(func_name_lower, <<"ai-">> \o normalized_name)
    \/ func_name_lower = normalized_name
    \/ contains(func_name_lower, normalized_name)
    \/ contains(func_name_lower, short_name_lower)
    \/ contains(short_name_lower, remove(func_name_lower, "ai-"))

\* The indices of the functions that match.
matches(functions, model_name) ==
    {i \in 1..Len(functions) :
        is_match(to_lowercase(functions[i].name),
                 to_lowercase(short_name_of(model_name)),
                 normalized_name_of(model_name))}

\* for func in functions { if matches { return Ok(Some(func.id)) } } Ok(None)
first_match(functions, hits) ==
    IF hits = {} THEN None
    ELSE Some(functions[CHOOSE i \in hits : \A j \in hits : i <= j].id)

\* find_function_by_model once fetch_function_list()? has returned.
find_in_list(fetched, model_name) ==
    IF ~fetched.result.ok
    THEN fetched
    ELSE Outcome(fetched.client,
                 Ok(first_match(fetched.result.val,
                                matches(fetched.result.val, model_name))),
                 fetched.net)

\* remote answers the function-list request, if one is sent.
find_function_by_model(c, model_name, remote) ==
    find_in_list(fetch_function_list(c, remote), model_name)

\* The NgcFunctionDetails built from the first version of the response.
details_of(function_id, latest_version) ==
    [id |-> IF is_some(latest_version.id) THEN unwrap(latest_version.id)
            ELSE function_id,
     name |-> IF is_some(latest_version.model_name)
              THEN unwrap(latest_version.model_name)
              ELSE IF is_some(latest_version.name) THEN unwrap(latest_version.name)
              ELSE "",
     status |-> latest_version.status,
     container_image |-> latest_version.containerImage]

\* get_function_details from the response on.
\* remote.body = [json, functions: Option of the version list]; a version is
\* [id, name, status, containerImage, model_name: Option<String>].
get_function_details_response(c, function_id, url, remote, r) ==
    IF r.state # "ok"
    THEN Outcome(c, Err("request failed"), Requests(url, r))
    ELSE IF ~remote.body.json
    THEN Outcome(c, Err("Failed to parse function versions response"), Requests(url, r))
    ELSE IF remote.body.functions = None
    THEN Outcome(c, Err("No 'functions' array in response"), Requests(url, r))
    ELSE IF unwrap(remote.body.functions) = <<>>
    THEN Outcome(c, Err("Empty functions array"), Requests(url, r))
    ELSE Outcome([c EXCEPT !.hosted_nim_cache =
                      insert(@, function_id,
                             details_of(function_id, unwrap(remote.body.functions)[1]))],
                 Ok(details_of(function_id, unwrap(remote.body.functions)[1])),
                 Requests(url, r))

get_function_details(c, function_id, remote) ==
    IF function_id \in DOMAIN c.hosted_nim_cache
    THEN Outcome(c, Ok(c.hosted_nim_cache[function_id]), <<>>)
    ELSE get_function_details_response(c, function_id, VersionsUrl(function_id), remote,
                                       get_with_retry(c.api_key, remote.outcomes))

\* query_local_nim from the response on.
query_local_nim_response(c, image_url, parsed, url, remote, r) ==
    IF r.state # "ok"
    THEN Outcome(c, Err("request failed"), Requests(url, r))
    ELSE IF ~remote.body.json
    THEN Outcome(c, Err("Failed to parse NGC repo response"), Requests(url, r))
    ELSE Outcome(c,
                 Ok([query_image |-> image_url, team |-> parsed[1], model |-> parsed[2],
                     latest_tag |-> remote.body.latest_tag]),
                 Requests(url, r))

query_local_nim_parsed(c, image_url, parsed, remote) ==
    IF parsed = None
    THEN Outcome(c, Err("Invalid image URL format"), <<>>)
    ELSE query_local_nim_response(c, image_url, unwrap(parsed),
                                  RepoUrl(unwrap(parsed)[1], unwrap(parsed)[2]),
                                  remote, get_with_retry(c.api_key, remote.outcomes))

\* A mutant of query_local_nim: a tag that resolve_latest_tag has cached is
\* answered from the cache.
query_local_nim_cached(c, image_url, remote) ==
    IF image_url \in DOMAIN c.local_nim_cache
    THEN Outcome(c,
                 Ok([query_image |-> image_url,
                     team |-> unwrap(parse_image_url(image_url))[1],
                     model |-> unwrap(parse_image_url(image_url))[2],
                     latest_tag |-> Some(c.local_nim_cache[image_url])]),
                 <<>>)
    ELSE query_local_nim_parsed(c, image_url, parse_image_url(image_url), remote)

\* query_local_nim: the same repository lookup, returned whole.
query_local_nim(c, image_url, remote) ==
    query_local_nim_parsed(c, image_url, parse_image_url(image_url), remote)

\* query_hosted_nim from the versions response on.
query_hosted_nim_response(found, model_name, remote, r, reqs) ==
    IF r.state # "ok"
    THEN Outcome(found.client, Err("request failed"), reqs)
    ELSE IF ~remote.body.json
    THEN Outcome(found.client, Err("Failed to parse function versions response"), reqs)
    ELSE IF remote.body.functions = None
    THEN Outcome(found.client, Err("No 'functions' array in response"), reqs)
    ELSE IF unwrap(remote.body.functions) = <<>>
    THEN Outcome(found.client, Err("Empty functions array"), reqs)
    ELSE Outcome(found.client,
                 Ok([query_model |-> model_name,
                     function_id |-> unwrap(remote.body.functions)[1].id,
                     name |-> unwrap(remote.body.functions)[1].name,
                     status |-> unwrap(remote.body.functions)[1].status,
                     container_image |-> unwrap(remote.body.functions)[1].containerImage]),
                 reqs)

query_hosted_nim_request(found, model_name, url, remote, r) ==
    query_hosted_nim_response(found, model_name, remote, r, found.net \o Requests(url, r))

\* A mutant of query_hosted_nim_found: "no match" is passed on as the empty
\* result it is for find_function_by_model.
query_hosted_nim_found_none_ok(found, model_name, remote) ==
    IF ~found.result.ok \/ found.result.val = None
    THEN found
    ELSE query_hosted_nim_request(found, model_name,
                                  VersionsUrl(unwrap(found.result.val)), remote,
                                  get_with_retry(found.client.api_key, remote.outcomes))

\* query_hosted_nim once find_function_by_model has returned.
query_hosted_nim_found(found, model_name, remote) ==
    IF ~found.result.ok
    THEN found
    ELSE IF found.result.val = None
    THEN Outcome(found.client, Err("No function found for model"), found.net)
    ELSE query_hosted_nim_request(found, model_name,
                                  VersionsUrl(unwrap(found.result.val)), remote,
                                  get_with_retry(found.client.api_key, remote.outcomes))

\* query_hosted_nim: find_function_by_model, then the versions endpoint.
query_hosted_nim(c, model_name, remote_list, remote) ==
    query_hosted_nim_found(find_function_by_model(c, model_name, remote_list),
                           model_name, remote)

(***************************************************************************)
(* Batch enrichment: one iteration of the loop of enrich_local_nim_matches *)
(* and of enrich_hosted_nim_matches, on one finding.                       *)
(***************************************************************************)

\* A mutant of enrich_local_resolved: a failed lookup clears the declared tag.
enrich_local_resolved_failure_clears(m, out) ==
    [client |-> out.client, net |-> out.net,
     m |-> IF out.result.ok
           THEN [m EXCEPT !.resolved_tag = Some(out.result.val)]
           ELSE [m EXCEPT !.tag = ""],
     lookup |-> Some(out.result)]

\* match self.resolve_latest_tag(&m.image_url): out is what the call returned.
enrich_local_resolved(m, out) ==
    [client |-> out.client, net |-> out.net,
     m |-> IF out.result.ok
           THEN [m EXCEPT !.resolved_tag = Some(out.result.val)]
           ELSE m,
     lookup |-> Some(out.result)]

\* A mutant of enrich_local_one: every reference is resolved, whatever its tag.
enrich_local_one_any_tag(c, m, remote) ==
    enrich_local_resolved(m, resolve_latest_tag(c, m.image_url, remote))

\* The body of `for m in &mut findings.local_nim`. lookup is the result of the
\* resolve_latest_tag call, if one was made.
enrich_local_one(c, m, remote) ==
    IF m.tag = "latest" \/ m.tag = ""
    THEN enrich_local_resolved(m, resolve_latest_tag(c, m.image_url, remote))
    ELSE [client |-> c, net |-> <<>>, m |-> m, lookup |-> None]

\* A mutant of enrich_hosted_detailed: the found id is dropped when the detail
\* lookup fails.
enrich_hosted_detailed_drops_id(m, found, function_id, got) ==
    [client |-> got.client, net |-> found.net \o got.net,
     m |-> IF got.result.ok
           THEN [m EXCEPT !.function_id = Some(got.result.val.id),
                          !.status = got.result.val.status,
                          !.container_image = got.result.val.container_image]
           ELSE m,
     find |-> Some(found.result), details |-> Some(got.result)]

\* A mutant of enrich_hosted_detailed: the model name is overwritten with the name
\* of the function.
enrich_hosted_detailed_renames(m, found, function_id, got) ==
    [client |-> got.client, net |-> found.net \o got.net,
     m |-> IF got.result.ok
           THEN [m EXCEPT !.function_id = Some(got.result.val.id),
                          !.status = got.result.val.status,
                          !.container_image = got.result.val.container_image,
                          !.model_name = Some(<<got.result.val.name>>)]
           ELSE [m EXCEPT !.function_id = Some(function_id)],
     find |-> Some(found.result), details |-> Some(got.result)]

\* match self.get_function_details(&function_id): got is what the call returned.
enrich_hosted_detailed(m, found, function_id, got) ==
    [client |-> got.client, net |-> found.net \o got.net,
     m |-> IF got.result.ok
           THEN [m EXCEPT !.function_id = Some(got.result.val.id),
                          !.status = got.result.val.status,
                          !.container_image = got.result.val.container_image]
           ELSE [m EXCEPT !.function_id = Some(function_id)],
     find |-> Some(found.result), details |-> Some(got.result)]

\* match self.find_function_by_model(model_name): found is what the call returned.
enrich_hosted_found(m, found, remote) ==
    IF ~found.result.ok \/ found.result.val = None
    THEN [client |-> found.client, net |-> found.net, m |-> m,
          find |-> Some(found.result), details |-> None]
    ELSE enrich_hosted_detailed(m, found, unwrap(found.result.val),
                                get_function_details(found.client,
                                                     unwrap(found.result.val), remote))

\* The body of `for m in &mut findings.hosted_nim`. find and details are the
\* results of the two lookups, where they were made.
enrich_hosted_one(c, m, remote_list, remote) ==
    IF m.model_name = None
    THEN [client |-> c, net |-> <<>>, m |-> m, find |-> None, details |-> None]
    ELSE enrich_hosted_found(m, find_function_by_model(c, unwrap(m.model_name),
                                                       remote_list), remote)

(***************************************************************************)
(* The scanner: extraction from one line, classification, deduplication.   *)
(* A line is given by its text and by what each regex captures on it.      *)
(***************************************************************************)

RECURSIVE join(_, _)
join(parts, sep) ==
    IF parts = <<>> THEN <<>>
    ELSE IF Len(parts) = 1 THEN parts[1]
    ELSE parts[1] \o <<sep>> \o join(Tail(parts), sep)

ends_with(s, p) == Len(p) <= Len(s) /\ SubSeq(s, Len(s) - Len(p) + 1, Len(s)) = p

determine_source_type(file_path) ==
    LET normalized == replace(file_path, "\\", "/") IN
    IF contains(normalized, <<".git", "hub", "/", "workflows", "/">>)
         /\ (ends_with(normalized, <<".yml">>) \/ ends_with(normalized, <<".yaml">>))
    THEN "ActionsWorkflow"
    ELSE "SourceCode"

\* A mutant of extract_local_nim: the pattern without tag is tried first.
extract_local_nim_no_tag_first(line, line_number, file_path, repository) ==
    IF is_some(line.no_tag)
    THEN Some([repository |-> repository,
               image_url |-> NimPrefix \o unwrap(line.no_tag),
               tag |-> "latest",
               resolved_tag |-> None,
               file_path |-> file_path,
               line_number |-> line_number,
               match_context |-> line.text])
    ELSE IF is_some(line.full)
    THEN Some([repository |-> repository,
               image_url |-> NimPrefix \o unwrap(line.full)[1],
               tag |-> unwrap(line.full)[2],
               resolved_tag |-> None,
               file_path |-> file_path,
               line_number |-> line_number,
               match_context |-> line.text])
    ELSE None

\* line.full = the captures (org/name, tag) of LOCAL_NIM_FULL, line.no_tag = the
\* capture of LOCAL_NIM_NO_TAG; the result is an Option<LocalNimMatch>.
extract_local_nim(line, line_number, file_path, repository) ==
    IF is_some(line.full)
    THEN Some([repository |-> repository,
               image_url |-> NimPrefix \o unwrap(line.full)[1],
               tag |-> unwrap(line.full)[2],
               resolved_tag |-> None,
               file_path |-> file_path,
               line_number |-> line_number,
               match_context |-> line.text])
    ELSE IF is_some(line.no_tag)
    THEN Some([repository |-> repository,
               image_url |-> NimPrefix \o unwrap(line.no_tag),
               tag |-> "latest",
               resolved_tag |-> None,
               file_path |-> file_path,
               line_number |-> line_number,
               match_context |-> line.text])
    ELSE None

extract_model_from_url(url) ==
    LET https == strip_prefix(url, <<"https://">>)
        rest == IF is_some(https) THEN https ELSE strip_prefix(url, <<"http://">>)
    IN
    IF rest = None THEN None
    ELSE
    LET path == join(Tail(split(unwrap(rest), "/")), "/") IN
    IF \/ path = <<>>
       \/ path = <<"v1">>
       \/ ends_with(path, <<"/", "chat", "/", "completions">>)
       \/ ends_with(path, <<"/", "embeddings">>)
       \/ ends_with(path, <<"/", "completions">>)
    THEN None
    ELSE
    LET parts == split(path, "/") IN
    IF Len(parts) >= 4
    THEN LET org == parts[Len(parts) - 1]
             model == parts[Len(parts)]
         IN IF org # <<>> /\ model # <<>> /\ org # <<"v1">> /\ org # <<"chat">>
                 /\ org # <<"embeddings">>
            THEN Some(org \o <<"/">> \o model)
            ELSE None
    ELSE None

\* A mutant of extract_hosted_nim: a match is pushed for every line.
extract_hosted_nim_every_line(line, line_number, file_path, repository) ==
    <<[repository |-> repository,
       endpoint_url |-> line.endpoint,
       model_name |-> IF is_some(line.model_assign) THEN line.model_assign
                      ELSE line.chatnvidia,
       file_path |-> file_path,
       line_number |-> line_number,
       match_context |-> line.text,
       function_id |-> None,
       status |-> None,
       container_image |-> None]>>

\* line.endpoint = the match of HOSTED_ENDPOINT; line.model_assign, line.chatnvidia,
\* line.nvidia_embeddings, line.nvidia_rerank = capture 1 of each model regex. The
\* result is the Vec<HostedNimMatch> of the line.
extract_hosted_nim(line, line_number, file_path, repository) ==
    LET endpoint == line.endpoint
        explicit == IF is_some(line.model_assign) THEN line.model_assign
                    ELSE IF is_some(line.chatnvidia) THEN line.chatnvidia
                    ELSE IF is_some(line.nvidia_embeddings) THEN line.nvidia_embeddings
                    ELSE line.nvidia_rerank
        model_name == IF explicit = None /\ is_some(endpoint)
                      THEN extract_model_from_url(unwrap(endpoint))
                      ELSE explicit
    IN
    IF is_some(endpoint) \/ is_some(model_name)
    THEN <<[repository |-> repository,
            endpoint_url |-> endpoint,
            model_name |-> model_name,
            file_path |-> file_path,
            line_number |-> line_number,
            match_context |-> line.text,
            function_id |-> None,
            status |-> None,
            container_image |-> None]>>
    ELSE <<>>

NimFindings_new == [local_nim |-> <<>>, hosted_nim |-> <<>>]

\* for m in local_matches { match determine_source_type(..) { t => <t>.push(m) } }
of_type(found, t) ==
    SelectSeq(found, LAMBDA m : determine_source_type(m.file_path) = t)

categorize_results(local_matches, hosted_matches) ==
    [source_code |-> [local_nim |-> of_type(local_matches, "SourceCode"),
                      hosted_nim |-> of_type(hosted_matches, "SourceCode")],
     actions_workflow |-> [local_nim |-> of_type(local_matches, "ActionsWorkflow"),
                           hosted_nim |-> of_type(hosted_matches, "ActionsWorkflow")]]

dedup_key(m) == <<m.repository, m.file_path, m.line_number>>

\* retain(|m| seen.insert(key)): an element stays iff its key is not in seen yet.
RECURSIVE retain_unseen(_, _)
retain_unseen(seq, seen) ==
    IF seq = <<>> THEN <<>>
    ELSE IF dedup_key(Head(seq)) \in seen
    THEN retain_unseen(Tail(seq), seen)
    ELSE <<Head(seq)>> \o retain_unseen(Tail(seq), seen \cup {dedup_key(Head(seq))})

\* A mutant of deduplicate_results: seen is not cleared between the two lists.
deduplicate_results_seen_kept(findings) ==
    [local_nim |-> retain_unseen(findings.local_nim, {}),
     hosted_nim |-> retain_unseen(findings.hosted_nim,
                                  {dedup_key(findings.local_nim[i]) :
                                      i \in 1..Len(findings.local_nim)})]

deduplicate_results(findings) ==
    [local_nim |-> retain_unseen(findings.local_nim, {}),
     hosted_nim |-> retain_unseen(findings.hosted_nim, {})]

(***************************************************************************)
(* The report (models.rs): the aggregated view and the summary.            *)
(***************************************************************************)

NimLocation(source_type, m) ==
    [source_type |-> source_type, repository |-> m.repository,
     file_path |-> m.file_path, line_number |-> m.line_number,
     match_context |-> m.match_context]

\* A mutant of push_location: only the finding that creates an entry leaves a
\* location.
push_location_first_only(map, key, fresh, loc) ==
    IF key \in DOMAIN map THEN map
    ELSE insert(map, key, [fresh EXCEPT !.locations = <<loc>>])

\* A mutant of push_location: a later finding of the key replaces the fields of
\* the entry and keeps its locations.
push_location_last_wins(map, key, fresh, loc) ==
    insert(map, key,
           IF key \in DOMAIN map
           THEN [fresh EXCEPT !.locations = Append(map[key].locations, loc)]
           ELSE [fresh EXCEPT !.locations = <<loc>>])

\* local_map.entry(key).or_insert_with(...).locations.push(...)
push_location(map, key, fresh, loc) ==
    insert(map, key,
           IF key \in DOMAIN map
           THEN [map[key] EXCEPT !.locations = Append(@, loc)]
           ELSE [fresh EXCEPT !.locations = <<loc>>])

local_entry(m) ==
    [image_url |-> m.image_url, tag |-> m.tag, resolved_tag |-> m.resolved_tag,
     locations |-> <<>>]

\* for m in &findings.local_nim, on the map so far.
RECURSIVE add_local(_, _, _)
add_local(map, seq, source_type) ==
    IF seq = <<>> THEN map
    ELSE add_local(push_location(map, <<Head(seq).image_url, Head(seq).tag>>,
                                 local_entry(Head(seq)),
                                 NimLocation(source_type, Head(seq))),
                   Tail(seq), source_type)

aggregate_local(sc, aw) ==
    add_local(add_local(EmptyMap, sc.local_nim, "source_code"),
              aw.local_nim, "actions_workflow")

\* model_name.or_else(|| endpoint_url).unwrap_or_else(|| format!("unknown-{}", line))
hosted_key(m) ==
    IF is_some(m.model_name) THEN unwrap(m.model_name)
    ELSE IF is_some(m.endpoint_url) THEN unwrap(m.endpoint_url)
    ELSE <<"unknown-", ToString(m.line_number)>>

hosted_entry(m) ==
    [endpoint_url |-> m.endpoint_url, model_name |-> m.model_name,
     function_id |-> m.function_id, status |-> m.status,
     container_image |-> m.container_image, locations |-> <<>>]

\* for m in &findings.hosted_nim, on the map so far.
RECURSIVE add_hosted(_, _, _)
add_hosted(map, seq, source_type) ==
    IF seq = <<>> THEN map
    ELSE add_hosted(push_location(map, hosted_key(Head(seq)), hosted_entry(Head(seq)),
                                  NimLocation(source_type, Head(seq))),
                    Tail(seq), source_type)

aggregate_hosted(sc, aw) ==
    add_hosted(add_hosted(EmptyMap, sc.hosted_nim, "source_code"),
               aw.hosted_nim, "actions_workflow")

\* map.into_values().collect(): the values, in any order.
into_values(map) ==
    {[i \in 1..Cardinality(DOMAIN map) |-> map[order[i]]] :
        order \in {o \in [1..Cardinality(DOMAIN map) -> DOMAIN map] :
                      \A i, j \in 1..Cardinality(DOMAIN map) : i # j => o[i] # o[j]}}

\* A mutant of Summary_calculate: only container references name a repository
\* that counts.
Summary_calculate_local_repos(sc, aw) ==
    [total_local_nim |-> Len(sc.local_nim) + Len(aw.local_nim),
     total_hosted_nim |-> Len(sc.hosted_nim) + Len(aw.hosted_nim),
     repos_with_nim |->
        Cardinality({sc.local_nim[i].repository : i \in 1..Len(sc.local_nim)}
                    \cup {aw.local_nim[i].repository : i \in 1..Len(aw.local_nim)}),
     source_code |-> [local_nim |-> Len(sc.local_nim), hosted_nim |-> Len(sc.hosted_nim)],
     actions_workflow |->
        [local_nim |-> Len(aw.local_nim), hosted_nim |-> Len(aw.hosted_nim)]]

Summary_calculate(sc, aw) ==
    [total_local_nim |-> Len(sc.local_nim) + Len(aw.local_nim),
     total_hosted_nim |-> Len(sc.hosted_nim) + Len(aw.hosted_nim),
     repos_with_nim |->
        Cardinality({sc.local_nim[i].repository : i \in 1..Len(sc.local_nim)}
                    \cup {sc.hosted_nim[i].repository : i \in 1..Len(sc.hosted_nim)}
                    \cup {aw.local_nim[i].repository : i \in 1..Len(aw.local_nim)}
                    \cup {aw.hosted_nim[i].repository : i \in 1..Len(aw.hosted_nim)}),
     source_code |-> [local_nim |-> Len(sc.local_nim), hosted_nim |-> Len(sc.hosted_nim)],
     actions_workflow |->
        [local_nim |-> Len(aw.local_nim), hosted_nim |-> Len(aw.hosted_nim)]]

\* ScanReport::new, with the order into_values gave to each aggregated list.
ScanReport_new(sc, aw, local_order, hosted_order) ==
    [source_code |-> sc, actions_workflow |-> aw,
     aggregated |-> [local_nim |-> local_order, hosted_nim |-> hosted_order],
     summary |-> Summary_calculate(sc, aw)]

(***************************************************************************)
(* The remote service: what it may answer to one get_with_retry call.      *)
(***************************************************************************)

OkScripts == {<<200, 200, 200>>, <<429, 0, 204>>}
FailScripts == {<<500, 500, 500>>, <<404, 200, 200>>}

NoBody == [json |-> FALSE]
Tags == {"1.0", "2.0"}
RepoBodies ==
    {[json |-> FALSE, latest_tag |-> None], [json |-> TRUE, latest_tag |-> None]}
        \cup {[json |-> TRUE, latest_tag |-> Some(t)] : t \in Tags}

FnLlama == [id |-> "f1", name |-> <<"AI-", "llama", "_", "3">>, status |-> Some("ACTIVE")]
FnRerank == [id |-> "f2", name |-> <<"ai-", "rerank">>, status |-> None]
FnRerankQa == [id |-> "f3", name |-> <<"ai-", "rerank", "_", "qa">>, status |-> None]
ListBodies ==
    {[json |-> FALSE, functions |-> <<>>],
     [json |-> TRUE, functions |-> <<FnLlama, FnRerank>>],
     [json |-> TRUE, functions |-> <<FnRerank>>],
     [json |-> TRUE, functions |-> <<FnRerankQa, FnRerank>>]}

VersionFull ==
    [id |-> Some("f1"), name |-> Some("ai-llama"), status |-> Some("ACTIVE"),
     containerImage |-> Some("nvcr.io/nim/meta/llama:1.0"), model_name |-> Some("llama")]
VersionBare ==
    [id |-> None, name |-> None, status |-> None, containerImage |-> None,
     model_name |-> None]
VersionBodies ==
    {[json |-> FALSE, functions |-> None],
     [json |-> TRUE, functions |-> None],
     [json |-> TRUE, functions |-> Some(<<>>)],
     [json |-> TRUE, functions |-> Some(<<VersionFull, VersionBare>>)],
     [json |-> TRUE, functions |-> Some(<<VersionBare>>)]}

Remotes(bodies) ==
    {[outcomes |-> s, body |-> b] : s \in OkScripts, b \in bodies}
        \cup {[outcomes |-> s, body |-> NoBody] : s \in FailScripts}

\* The remote is consulted only by an operation that sends a request: where the
\* operation is answered without one, one remote stands for all of them.
AnyRemote(bodies) == CHOOSE r \in Remotes(bodies) : r.body.json
RepoRemotes(c, image_url) ==
    IF image_url \in DOMAIN c.local_nim_cache \/ parse_image_url(image_url) = None
    THEN {AnyRemote(RepoBodies)} ELSE Remotes(RepoBodies)
ListRemotes(c) ==
    IF is_some(c.function_list_cache)
    THEN {AnyRemote(ListBodies)} ELSE Remotes(ListBodies)
VersionRemotes(c, function_id) ==
    IF function_id \in DOMAIN c.hosted_nim_cache
    THEN {AnyRemote(VersionBodies)} ELSE Remotes(VersionBodies)
found_some(found) == found.result.ok /\ is_some(found.result.val)
VersionRemotesAfterFind(c, model_name, remote_list) ==
    IF found_some(find_function_by_model(c, model_name, remote_list))
    THEN Remotes(VersionBodies) ELSE {AnyRemote(VersionBodies)}

ImgLlama == <<"nvcr.io", "/", "nim", "/", "nvidia", "/", "llama">>
ImgRerank == <<"nvcr.io", "/", "nim", "/", "meta", "/", "rerank">>
ImgExtra == <<"nvcr.io", "/", "nim", "/", "nvidia", "/", "llama", "/", "extra">>
ImgShort == <<"nvcr.io", "/", "nim", "/", "nvidia">>
ImgDocker == <<"docker.io", "/", "library", "/", "nginx">>

ModelLlama == <<"meta", "/", "Llama", ".", "3">>
ModelRerank == <<"nvidia", "/", "rerank">>
ModelOther == <<"google", "/", "gemma">>

(***************************************************************************)
(* Initial values of the parts a specification does not exercise.          *)
(***************************************************************************)

NoObs ==
    [resolved |-> {}, detailed |-> {}, failed_resolve |-> {}, failed_details |-> {},
     list_used |-> FALSE, tried |-> {}, failed |-> {}, some_ok |-> FALSE]
NoCall == [op |-> "none", arg |-> <<>>, result |-> Ok(<<>>), n |-> 0]
NoWalk == [root |-> <<>>, pending |-> {}, visited |-> {}, local |-> <<>>, hosted |-> <<>>]
NoPar == [items |-> <<>>, pc |-> <<>>, slots |-> <<>>]

\* No parallel loop is running and the working directory is empty.
IdleWorkers == par = NoPar /\ fs = EmptyMap

IdleRetry == rq = RetryLoopStart
IdleClient ==
    /\ client = [api_key |-> "", local_nim_cache |-> <<>>, hosted_nim_cache |-> <<>>,
                 function_list_cache |-> None]
    /\ net = <<>>
    /\ ret = NoCall
    /\ obs = NoObs
IdlePipe ==
    /\ all_local = <<>>
    /\ all_hosted = <<>>
    /\ source_code = NimFindings_new
    /\ actions_workflow = NimFindings_new
    /\ pipe = [pc |-> "idle", phase |-> 0, idx |-> 0, api_key |-> None, before |-> None,
               built |-> FALSE]
    /\ report = None
    /\ walk = NoWalk
    /\ IdleWorkers

(***************************************************************************)
(* SpecClient: one NgcClient and a bounded number of calls of its public   *)
(* operations, each with any argument and any remote behaviour.            *)
(***************************************************************************)

MaxCalls == 3

ClientImages == {ImgLlama, ImgExtra, ImgShort, ImgDocker}
ClientModels == {ModelLlama, ModelRerank, ModelOther}
ClientFunctionIds == {"f1", "f2"}

\* The record of one call: what was called, with what, what it returned.
Called(op, arg, out) == [op |-> op, arg |-> arg, result |-> out.result, n |-> ret.n + 1]

InitClient ==
    /\ \E k \in ApiKeys \ {""} : client = NgcClient_new(k)
    /\ net = <<>>
    /\ ret = NoCall
    /\ obs = NoObs
    /\ IdleRetry
    /\ IdlePipe

DoResolve ==
    /\ ret.n < MaxCalls
    /\ \E image_url \in ClientImages :
       \E remote \in RepoRemotes(client, image_url) :
         \E out \in {resolve_latest_tag(client, image_url, remote)} :
         /\ client' = out.client
         /\ net' = out.net
         /\ ret' = Called("resolve_latest_tag", image_url, out)
         /\ obs' = IF out.result.ok
                   THEN [obs EXCEPT !.resolved = @ \cup {<<image_url, out.result.val>>},
                                    !.failed_resolve = @ \ {image_url}]
                   ELSE [obs EXCEPT !.failed_resolve = @ \cup {image_url}]
    /\ UNCHANGED <<retryVars, pipeVars>>

DoFind ==
    /\ ret.n < MaxCalls
    /\ \E model_name \in ClientModels, remote \in ListRemotes(client) :
         \E out \in {find_function_by_model(client, model_name, remote)} :
         /\ client' = out.client
         /\ net' = out.net
         /\ ret' = Called("find_function_by_model", model_name, out)
         /\ obs' = [obs EXCEPT !.list_used = TRUE]
    /\ UNCHANGED <<retryVars, pipeVars>>

DoDetails ==
    /\ ret.n < MaxCalls
    /\ \E function_id \in ClientFunctionIds :
       \E remote \in VersionRemotes(client, function_id) :
         \E out \in {get_function_details(client, function_id, remote)} :
         /\ client' = out.client
         /\ net' = out.net
         /\ ret' = Called("get_function_details", function_id, out)
         /\ obs' = IF out.result.ok
                   THEN [obs EXCEPT !.detailed = @ \cup {<<function_id, out.result.val>>},
                                    !.failed_details = @ \ {function_id}]
                   ELSE [obs EXCEPT !.failed_details = @ \cup {function_id}]
    /\ UNCHANGED <<retryVars, pipeVars>>

DoQueryLocal ==
    /\ ret.n < MaxCalls
    /\ \E image_url \in ClientImages :
       \E remote \in (IF parse_image_url(image_url) = None
                       THEN {AnyRemote(RepoBodies)} ELSE Remotes(RepoBodies)) :
         \E out \in {query_local_nim(client, image_url, remote)} :
         /\ client' = out.client
         /\ net' = out.net
         /\ ret' = Called("query_local_nim", image_url, out)
    /\ UNCHANGED <<obs, retryVars, pipeVars>>

DoQueryHosted ==
    /\ ret.n < MaxCalls
    /\ \E model_name \in ClientModels, remote_list \in ListRemotes(client) :
       \E remote \in VersionRemotesAfterFind(client, model_name, remote_list) :
         \E out \in {query_hosted_nim(client, model_name, remote_list, remote)} :
         /\ client' = out.client
         /\ net' = out.net
         /\ ret' = Called("query_hosted_nim", model_name, out)
         /\ obs' = [obs EXCEPT !.list_used = TRUE]
    /\ UNCHANGED <<retryVars, pipeVars>>

NextClient == DoResolve \/ DoFind \/ DoDetails \/ DoQueryLocal \/ DoQueryHosted

SpecClient == InitClient /\ [][NextClient]_vars

NewCall(op) == ret'.n = ret.n + 1 /\ ret'.op = op
SentTo(reqs, endpoint) == \E i \in 1..Len(reqs) : reqs[i].endpoint = endpoint

\* Once a lookup has succeeded, every later lookup of the same key returns the
\* same value and sends nothing.
CachedAnswer ==
    /\ \A e \in obs.resolved :
         (NewCall("resolve_latest_tag") /\ ret'.arg = e[1])
             => (ret'.result = Ok(e[2]) /\ net' = <<>>)
    /\ \A e \in obs.detailed :
         (NewCall("get_function_details") /\ ret'.arg = e[1])
             => (ret'.result = Ok(e[2]) /\ net' = <<>>)

\* A lookup that fails leaves both caches as they were.
FailureStoresNothing ==
    ((NewCall("resolve_latest_tag") \/ NewCall("get_function_details"))
        /\ ~ret'.result.ok)
        => /\ client'.local_nim_cache = client.local_nim_cache
           /\ client'.hosted_nim_cache = client.hosted_nim_cache

\* C8 as stated: a successful lookup is answered from the cache ever after, a failed
\* lookup stores nothing, and after a failed lookup the next call for the same key
\* issues remote requests again.
C8_Original ==
    [][/\ CachedAnswer
       /\ FailureStoresNothing
       /\ \A x \in obs.failed_resolve :
            (NewCall("resolve_latest_tag") /\ ret'.arg = x) => net' # <<>>
       /\ \A f \in obs.failed_details :
            (NewCall("get_function_details") /\ ret'.arg = f) => net' # <<>>]_vars

\* C8 (amended): on one client, once resolve_latest_tag(X) / get_function_details(F)
\* has succeeded, every later call for the same key returns the same value without
\* a request; a failed lookup stores nothing in either cache, and the next call for
\* the same key runs the lookup again: it issues remote requests again whenever the
\* API key forms a valid header and, for resolve_latest_tag, the coordinate parses
\* (otherwise it fails again before any request).
C8_CacheHitsAndMisses ==
    [][/\ CachedAnswer
       /\ FailureStoresNothing
       /\ \A x \in obs.failed_resolve :
            (NewCall("resolve_latest_tag") /\ ret'.arg = x)
                => /\ (auth_headers(client.api_key) /\ parse_image_url(x) # None)
                          => SentTo(net', "repos")
                   /\ (~auth_headers(client.api_key) \/ parse_image_url(x) = None)
                          => (net' = <<>> /\ ~ret'.result.ok)
       /\ \A f \in obs.failed_details :
            (NewCall("get_function_details") /\ ret'.arg = f)
                => /\ auth_headers(client.api_key) => SentTo(net', "versions")
                   /\ ~auth_headers(client.api_key) => (net' = <<>> /\ ~ret'.result.ok)]_vars

\* Reached: a lookup failed, the same key then resolved to "2.0", and a third call
\* for it was answered "2.0" without a request.
C8_Witness ==
    /\ ret.n = 3
    /\ ret.op = "resolve_latest_tag"
    /\ ret.arg = ImgLlama
    /\ ret.result = Ok("2.0")
    /\ net = <<>>
    /\ obs.failed_resolve = {}
    /\ obs.resolved = {<<ImgLlama, "2.0">>}
    /\ obs.detailed = {}
    /\ obs.failed_details = {}
    /\ ~obs.list_used

\* The shape nvcr.io/nim/<org>/<model>: the prefix, one organization segment and
\* one model segment.
RegistryShape(image_url) ==
    /\ starts_with(image_url, NimPrefix)
    /\ LET parts == split(SubSeq(image_url, Len(NimPrefix) + 1, Len(image_url)), "/")
       IN Len(parts) = 2 /\ parts[1] # <<>> /\ parts[2] # <<>>

\* C9: resolve_latest_tag fails, without a request, for every image coordinate
\* that is not of the shape nvcr.io/nim/<org>/<model>.
C9_MalformedCoordinateFails ==
    (ret.op = "resolve_latest_tag" /\ ~RegistryShape(ret.arg))
        => (~ret.result.ok /\ net = <<>>)

\* C10 as stated: no call after the first call that uses the function list issues
\* a request to the function-list endpoint.
C10_Original ==
    [][(obs.list_used
          /\ (NewCall("find_function_by_model") \/ NewCall("query_hosted_nim")))
        => ~SentTo(net', "functions")]_vars

\* C10 (amended): once the function list has been fetched successfully, no later
\* find_function_by_model or query_hosted_nim call issues a request to the
\* function-list endpoint and the kept list never changes; while no fetch has
\* succeeded the list is not kept, and a call made with a usable API key requests
\* it again.
C10_ListFetchedOncePerSuccess ==
    [][(NewCall("find_function_by_model") \/ NewCall("query_hosted_nim"))
        => /\ is_some(client.function_list_cache)
                => /\ ~SentTo(net', "functions")
                   /\ client'.function_list_cache = client.function_list_cache
           /\ (client.function_list_cache = None /\ auth_headers(client.api_key))
                => SentTo(net', "functions")]_vars

\* Reached: a second call used the list that an earlier call had fetched, and sent
\* nothing to the function-list endpoint.
C10_Witness ==
    /\ ret.n >= 2
    /\ ret.op = "find_function_by_model"
    /\ ret.result = Ok(Some("f2"))
    /\ is_some(client.function_list_cache)
    /\ net = <<>>

(***************************************************************************)
(* SpecRetry: one call of get_with_retry, one attempt per step.            *)
(***************************************************************************)

InitRetry ==
    /\ \E k \in ApiKeys \ {""} : rq = RetryStart(k)
    /\ IdleClient
    /\ IdlePipe

RetryAttempt ==
    /\ rq.state = "loop"
    /\ \E status \in Statuses : rq' = Attempt(rq, status)
    /\ UNCHANGED <<clientVars, pipeVars>>

NextRetry == RetryAttempt

SpecRetry == InitRetry /\ [][NextRetry]_vars

Retryable(status) ==
    status = TransportError \/ status = 429 \/ is_server_error(status)
ClientError(status) ==
    status # TransportError /\ ~is_success(status) /\ status # 429
        /\ ~is_server_error(status)

\* C1: one call sends at most MAX_RETRIES (3) requests; it has succeeded exactly
\* when the latest attempt got a 2xx, every attempt before the latest one ended in
\* a 429, a 5xx or a transport failure (so nothing is sent after a success), and
\* [429, 500, 200] succeeds on the third attempt while [500, 500, 500] fails
\* after the third.
C1_RetryCeiling ==
    /\ rq.sent = Len(rq.hist)
    /\ rq.sent <= MAX_RETRIES
    /\ (rq.state = "ok") = (rq.hist # <<>> /\ is_success(rq.hist[Len(rq.hist)]))
    /\ \A i \in 1..(Len(rq.hist) - 1) : Retryable(rq.hist[i])
    /\ (rq.state = "loop") => rq.sent < MAX_RETRIES
    /\ rq.hist = <<429, 500, 200>> => rq.state = "ok" /\ rq.sent = 3
    /\ rq.hist = <<500, 500, 500>> => rq.state = "err" /\ rq.sent = 3

C1_Witness == rq.hist = <<429, 500, 200>> /\ rq.state = "ok" /\ rq.sent = 3

\* C2: an attempt that receives a status that is neither 2xx, 429 nor 5xx ends
\* the call with an error at that attempt: no sleep follows it (one sleep per
\* earlier attempt only) and it is the last request, at attempt 1, 2 or 3 alike.
C2_ClientErrorFailsAtOnce ==
    \A i \in 1..Len(rq.hist) :
        ClientError(rq.hist[i]) =>
            /\ i = Len(rq.hist)
            /\ rq.state = "err"
            /\ rq.error = Some([kind |-> "http", status |-> rq.hist[i]])
            /\ Len(rq.sleeps) = i - 1
            /\ rq.sent = i

C2_Witness ==
    /\ rq.hist = <<500, 404>>
    /\ rq.state = "err"
    /\ rq.sleeps = <<1>>

(***************************************************************************)
(* Spec: run_scan from the scan results to the report, with                *)
(* enrich_all_findings one finding per step.                               *)
(***************************************************************************)

MaxFindings == 2

SeqsUpTo(S, n) == UNION {[1..k -> S] : k \in 0..n}
DistinctKeys(seq) ==
    \A i, j \in 1..Len(seq) : i # j => dedup_key(seq[i]) # dedup_key(seq[j])

SrcFile == <<"src", "/", "app", ".py">>
WfFile == <<".git", "hub", "/", "workflows", "/", "ci", ".yml">>

LineNoTag ==
    [text |-> "FROM nvcr.io/nim/nvidia/llama",
     full |-> None, no_tag |-> Some(<<"nvidia", "/", "llama">>)]
LineTagged ==
    [text |-> "image: nvcr.io/nim/nvidia/llama:1.0",
     full |-> Some(<<<<"nvidia", "/", "llama">>, "1.0">>), no_tag |-> None]
LineLatest ==
    [text |-> "image: nvcr.io/nim/meta/rerank:latest",
     full |-> Some(<<<<"meta", "/", "rerank">>, "latest">>), no_tag |-> None]

HLineEndpoint ==
    [text |-> "base_url: https://integrate.api.nvidia.com/v1",
     endpoint |-> Some(<<"https://", "integrate.api.nvidia.com", "/", "v1">>),
     model_assign |-> None, chatnvidia |-> None, nvidia_embeddings |-> None,
     nvidia_rerank |-> None]
HLineModel ==
    [text |-> "model = 'meta/Llama.3'",
     endpoint |-> None,
     model_assign |-> Some(ModelLlama), chatnvidia |-> None,
     nvidia_embeddings |-> None, nvidia_rerank |-> None]
HLineUrlModel ==
    [text |-> "curl https://ai.api.nvidia.com/v1/cv/nvidia/rerank",
     endpoint |-> Some(<<"https://", "ai.api.nvidia.com", "/", "v1", "/", "cv", "/",
                         "nvidia", "/", "rerank">>),
     model_assign |-> None, chatnvidia |-> None, nvidia_embeddings |-> None,
     nvidia_rerank |-> None]
HLineChat ==
    [text |-> "llm = ChatNVIDIA(model='google/gemma')",
     endpoint |-> None,
     model_assign |-> None, chatnvidia |-> Some(ModelOther),
     nvidia_embeddings |-> None, nvidia_rerank |-> None]

\* What scan_directory can return for repository "r1": the references extracted
\* from these lines at these places.
ScannedLocal ==
    {unwrap(extract_local_nim(x[1], x[3], x[2], "r1")) :
        x \in {<<LineNoTag, SrcFile, 1>>, <<LineTagged, SrcFile, 2>>,
               <<LineNoTag, WfFile, 1>>, <<LineLatest, WfFile, 2>>}}
ScannedHosted ==
    {extract_hosted_nim(x[1], x[3], x[2], "r1")[1] :
        x \in {<<HLineEndpoint, SrcFile, 3>>, <<HLineModel, SrcFile, 4>>,
               <<HLineUrlModel, WfFile, 3>>, <<HLineChat, WfFile, 4>>,
               <<HLineModel, WfFile, 5>>}}

\* args.ngc_api_key: Option<String>
ApiKeyArgs == {None} \cup {Some(k) : k \in ApiKeys}

Init ==
    /\ all_local \in {q \in SeqsUpTo(ScannedLocal, MaxFindings) : DistinctKeys(q)}
    /\ all_hosted \in {q \in SeqsUpTo(ScannedHosted, MaxFindings) : DistinctKeys(q)}
    /\ source_code = NimFindings_new
    /\ actions_workflow = NimFindings_new
    /\ \E k \in ApiKeyArgs :
         pipe = [pc |-> "scanned", phase |-> 0, idx |-> 0, api_key |-> k,
                 before |-> None, built |-> FALSE]
    /\ report = None
    /\ walk = NoWalk
    /\ IdleWorkers
    /\ IdleClient
    /\ IdleRetry

\* run_scan: scanner::categorize_results(all_local, all_hosted)
Categorize ==
    /\ pipe.pc = "scanned"
    /\ LET c == categorize_results(all_local, all_hosted) IN
         /\ source_code' = c.source_code
         /\ actions_workflow' = c.actions_workflow
    /\ all_local' = <<>>
    /\ all_hosted' = <<>>
    /\ pipe' = [pipe EXCEPT !.pc = "categorized"]
    /\ UNCHANGED <<retryVars, walk, par, fs, clientVars, report>>

\* run_scan: scanner::deduplicate_results(&mut source_code)
DeduplicateSource ==
    /\ pipe.pc = "categorized"
    /\ source_code' = deduplicate_results(source_code)
    /\ pipe' = [pipe EXCEPT !.pc = "dedup_source"]
    /\ UNCHANGED <<retryVars, walk, par, fs, clientVars, all_local, all_hosted,
                   actions_workflow, report>>

\* run_scan: scanner::deduplicate_results(&mut actions_workflow)
DeduplicateWorkflow ==
    /\ pipe.pc = "dedup_source"
    /\ actions_workflow' = deduplicate_results(actions_workflow)
    /\ pipe' = [pipe EXCEPT !.pc = "deduped"]
    /\ UNCHANGED <<retryVars, walk, par, fs, clientVars, all_local, all_hosted,
                   source_code, report>>

\* The four loops of enrich_all_findings, in order.
PhaseList(phase, sc, aw) ==
    CASE phase = 1 -> sc.local_nim
      [] phase = 2 -> aw.local_nim
      [] phase = 3 -> sc.hosted_nim
      [] phase = 4 -> aw.hosted_nim
      [] OTHER -> <<>>

\* The next finding to handle from (phase, idx) on: loops that are over are left.
RECURSIVE NextPos(_, _, _, _)
NextPos(phase, idx, sc, aw) ==
    IF phase > 4 THEN [phase |-> 5, idx |-> 1]
    ELSE IF idx <= Len(PhaseList(phase, sc, aw)) THEN [phase |-> phase, idx |-> idx]
    ELSE NextPos(phase + 1, 1, sc, aw)

At(p, pos) ==
    [p EXCEPT !.phase = pos.phase, !.idx = pos.idx,
              !.pc = IF pos.phase > 4 THEN "enriched" ELSE "enriching"]

\* A mutant of has_api_key: an empty key counts as a key.
has_api_key_accepts_empty(api_key) == is_some(api_key)

\* match api_key { Some(key) if !key.is_empty() => key, _ => return }
has_api_key(api_key) == is_some(api_key) /\ unwrap(api_key) # ""

\* enrich_all_findings up to its first loop: the key check and NgcClient::new,
\* which may fail to build the HTTP client.
EnrichBegin ==
    /\ pipe.pc = "deduped"
    /\ LET snap == Some([source_code |-> source_code,
                         actions_workflow |-> actions_workflow])
       IN
       IF ~has_api_key(pipe.api_key)
       THEN /\ pipe' = [pipe EXCEPT !.pc = "enriched", !.before = snap]
            /\ UNCHANGED client
       ELSE \E built \in BOOLEAN :
              IF built
              THEN /\ client' = NgcClient_new(unwrap(pipe.api_key))
                   /\ pipe' = At([pipe EXCEPT !.before = snap, !.built = TRUE],
                                 NextPos(1, 1, source_code, actions_workflow))
              ELSE /\ pipe' = [pipe EXCEPT !.pc = "enriched", !.before = snap]
                   /\ UNCHANGED client
    /\ UNCHANGED <<retryVars, walk, par, fs, net, ret, obs, findingVars, report>>

\* One iteration of enrich_local_nim_matches (on source_code, then on
\* actions_workflow).
EnrichLocalStep ==
    /\ pipe.pc = "enriching"
    /\ pipe.phase \in {1, 2}
    /\ LET m == PhaseList(pipe.phase, source_code, actions_workflow)[pipe.idx] IN
       \E remote \in RepoRemotes(client, m.image_url) :
         \E out \in {enrich_local_one(client, m, remote)} :
         /\ client' = out.client
         /\ net' = out.net
         /\ ret' = [op |-> "enrich_local", arg |-> <<pipe.phase, pipe.idx>>,
                    result |-> out.lookup, n |-> ret.n + 1]
         /\ obs' = [obs EXCEPT
                      !.tried = IF is_some(out.lookup)
                                THEN @ \cup {<<pipe.phase, pipe.idx>>} ELSE @,
                      !.failed = IF is_some(out.lookup) /\ ~unwrap(out.lookup).ok
                                 THEN @ \cup {<<pipe.phase, pipe.idx>>} ELSE @,
                      !.some_ok = @ \/ (is_some(out.lookup) /\ unwrap(out.lookup).ok),
                      !.resolved = IF is_some(out.lookup) /\ unwrap(out.lookup).ok
                                   THEN @ \cup {<<m.image_url, unwrap(out.lookup).val>>}
                                   ELSE @]
         /\ IF pipe.phase = 1
            THEN /\ source_code' = [source_code EXCEPT !.local_nim[pipe.idx] = out.m]
                 /\ UNCHANGED actions_workflow
            ELSE /\ actions_workflow' =
                        [actions_workflow EXCEPT !.local_nim[pipe.idx] = out.m]
                 /\ UNCHANGED source_code
    /\ pipe' = At(pipe, NextPos(pipe.phase, pipe.idx + 1, source_code, actions_workflow))
    /\ UNCHANGED <<retryVars, walk, par, fs, all_local, all_hosted, report>>

\* One iteration of enrich_hosted_nim_matches (on source_code, then on
\* actions_workflow).
EnrichHostedStep ==
    /\ pipe.pc = "enriching"
    /\ pipe.phase \in {3, 4}
    /\ LET m == PhaseList(pipe.phase, source_code, actions_workflow)[pipe.idx] IN
       \E remote_list \in ListRemotes(client) :
       \E remote \in (IF is_some(m.model_name)
                      THEN VersionRemotesAfterFind(client, unwrap(m.model_name),
                                                   remote_list)
                      ELSE {AnyRemote(VersionBodies)}) :
         \E out \in {enrich_hosted_one(client, m, remote_list, remote)} :
         /\ client' = out.client
         /\ net' = out.net
         /\ ret' = [op |-> "enrich_hosted", arg |-> <<pipe.phase, pipe.idx>>,
                    result |-> [find |-> out.find, details |-> out.details],
                    n |-> ret.n + 1]
         /\ obs' = [obs EXCEPT
                      !.tried = IF is_some(out.find)
                                THEN @ \cup {<<pipe.phase, pipe.idx>>} ELSE @,
                      !.failed = IF is_some(out.find)
                                    /\ (~found_some([result |-> unwrap(out.find)])
                                        \/ ~unwrap(out.details).ok)
                                 THEN @ \cup {<<pipe.phase, pipe.idx>>} ELSE @,
                      !.some_ok = @ \/ (is_some(out.find) /\ unwrap(out.find).ok),
                      !.list_used = @ \/ is_some(out.find)]
         /\ IF pipe.phase = 3
            THEN /\ source_code' = [source_code EXCEPT !.hosted_nim[pipe.idx] = out.m]
                 /\ UNCHANGED actions_workflow
            ELSE /\ actions_workflow' =
                        [actions_workflow EXCEPT !.hosted_nim[pipe.idx] = out.m]
                 /\ UNCHANGED source_code
    /\ pipe' = At(pipe, NextPos(pipe.phase, pipe.idx + 1, source_code, actions_workflow))
    /\ UNCHANGED <<retryVars, walk, par, fs, all_local, all_hosted, report>>

\* run_scan: ScanReport::new(repos.len(), source_code, actions_workflow). The order
\* of the aggregated entries is the iteration order of a HashMap: any order.
Report ==
    /\ pipe.pc = "enriched"
    /\ \E local_order \in into_values(aggregate_local(source_code, actions_workflow)),
          hosted_order \in into_values(aggregate_hosted(source_code, actions_workflow)) :
         report' = Some(ScanReport_new(source_code, actions_workflow,
                                       local_order, hosted_order))
    /\ pipe' = [pipe EXCEPT !.pc = "reported"]
    /\ UNCHANGED <<retryVars, walk, par, fs, clientVars, findingVars>>

Next ==
    \/ Categorize
    \/ DeduplicateSource
    \/ DeduplicateWorkflow
    \/ EnrichBegin
    \/ EnrichLocalStep
    \/ EnrichHostedStep
    \/ Report

Spec == Init /\ [][Next]_vars

(***************************************************************************)
(* Properties of the pipeline.                                             *)
(***************************************************************************)

Range(seq) == {seq[i] : i \in 1..Len(seq)}

\* Every container reference there is, wherever the run holds it.
LocalRefs ==
    Range(all_local) \cup Range(source_code.local_nim)
        \cup Range(actions_workflow.local_nim)

Sentinel(tag) == tag = "latest" \/ tag = ""

\* The finding the enrichment step at hand works on, before and after the step.
Handled(sc, aw) == PhaseList(pipe.phase, sc, aw)[pipe.idx]
LocalStep == pipe.pc = "enriching" /\ pipe.phase \in {1, 2}
HostedStep == pipe.pc = "enriching" /\ pipe.phase \in {3, 4}

\* A resolved tag is the answer of a successful lookup of that coordinate, and sits
\* on a reference (or an aggregated entry) declared "latest" or without a tag.
ResolvedOnlyByLookup ==
    /\ \A m \in LocalRefs :
         is_some(m.resolved_tag)
            => /\ Sentinel(m.tag)
               /\ <<m.image_url, unwrap(m.resolved_tag)>> \in obs.resolved
    /\ is_some(report)
         => \A a \in Range(unwrap(report).aggregated.local_nim) :
              /\ \E m \in LocalRefs : m.image_url = a.image_url /\ m.tag = a.tag
              /\ is_some(a.resolved_tag)
                    => /\ Sentinel(a.tag)
                       /\ <<a.image_url, unwrap(a.resolved_tag)>> \in obs.resolved

\* A step that sets a resolved tag sets it to what its own lookup returned.
SetByThisLookup ==
    (LocalStep /\ Handled(source_code', actions_workflow').resolved_tag
                    # Handled(source_code, actions_workflow).resolved_tag)
        => /\ is_some(ret'.result)
           /\ unwrap(ret'.result).ok
           /\ Handled(source_code', actions_workflow').resolved_tag
                 = Some(unwrap(ret'.result).val)

\* No step creates a reference or alters the declared tag or coordinate of one.
TagsNeverChange ==
    \A m2 \in LocalRefs' :
        \E m1 \in LocalRefs :
            /\ dedup_key(m1) = dedup_key(m2)
            /\ m1.tag = m2.tag
            /\ m1.image_url = m2.image_url

\* C3: in every reachable state of the pipeline, resolved_tag is set only on a
\* reference whose declared tag is "latest" or empty and only to the tag a
\* successful resolve_latest_tag call for its coordinate returned; and the declared
\* tag of a reference never changes once the scanner has created it.
C3_ResolvedTagInvariant ==
    []ResolvedOnlyByLookup /\ [][TagsNeverChange /\ SetByThisLookup]_vars

\* Reached: the report holds a reference declared "latest" and resolved to "2.0"
\* next to a reference declared "1.0" and left unresolved.
C3_Witness ==
    /\ pipe.pc = "reported"
    /\ \E m \in LocalRefs : m.tag = "latest" /\ m.resolved_tag = Some("2.0")
    /\ \E m \in LocalRefs : m.tag = "1.0" /\ m.resolved_tag = None
    /\ \E a \in Range(unwrap(report).aggregated.local_nim) :
          a.resolved_tag = Some("2.0")

Positions(phases) ==
    {<<ph, i>> : ph \in phases, i \in 1..MaxFindings}
InBatch(pos) == pos[2] <= Len(PhaseList(pos[1], source_code, actions_workflow))
AtPos(pos) == PhaseList(pos[1], source_code, actions_workflow)[pos[2]]
BatchDone == pipe.pc \in {"enriched", "reported"} /\ pipe.built

HostedOutcome(m, after, r) ==
    IF m.model_name = None
    THEN after = m /\ r.find = None /\ net' = <<>>
    ELSE /\ is_some(r.find)
         /\ IF ~found_some([result |-> unwrap(r.find)])
            THEN /\ after = m
                 /\ r.details = None
            ELSE /\ is_some(r.details)
                 /\ IF ~unwrap(r.details).ok
                    THEN after = [m EXCEPT !.function_id = unwrap(r.find).val]
                    ELSE after = [m EXCEPT
                            !.function_id = Some(unwrap(r.details).val.id),
                            !.status = unwrap(r.details).val.status,
                            !.container_image = unwrap(r.details).val.container_image]

\* C5: enrich_hosted_nim_matches treats each hosted reference with a model name so:
\* find fails or finds nothing: function_id, status, container_image unchanged; an
\* id is found and get_function_details fails: function_id is the found id, status
\* and container_image unchanged; both succeed: the three fields come from the
\* details. A reference without a model name is untouched and costs no request.
\* Whatever happened, the loop goes on to the next reference.
C5_HostedCases ==
    /\ [][HostedStep
            => /\ HostedOutcome(Handled(source_code, actions_workflow),
                                Handled(source_code', actions_workflow'), ret'.result)
               /\ pipe'.phase = NextPos(pipe.phase, pipe.idx + 1,
                                        source_code, actions_workflow).phase
               /\ pipe'.idx = NextPos(pipe.phase, pipe.idx + 1,
                                      source_code, actions_workflow).idx]_vars
    /\ [](BatchDone
            => \A pos \in Positions({3, 4}) :
                 (InBatch(pos) /\ is_some(AtPos(pos).model_name)) => pos \in obs.tried)

\* Reached: an id was found, the detail lookup failed, and the reference carries
\* the bare id; the next reference was then handled.
C5_Witness ==
    /\ BatchDone
    /\ Len(source_code.hosted_nim) = 2
    /\ source_code.hosted_nim[2].function_id = Some("f1")
    /\ source_code.hosted_nim[2].status = None
    /\ source_code.hosted_nim[2].container_image = None
    /\ <<3, 2>> \in obs.failed
    /\ ret.op = "enrich_hosted"
    /\ ret.arg = <<3, 2>>
    /\ is_some(ret.result.details)
    /\ ~unwrap(ret.result.details).ok

\* b and a hold the same references in the same order, alike in every field that
\* the scanner sets.
SameLocal(b, a) ==
    /\ Len(a) = Len(b)
    /\ \A i \in 1..Len(b) : a[i] = [b[i] EXCEPT !.resolved_tag = a[i].resolved_tag]
SameHosted(b, a) ==
    /\ Len(a) = Len(b)
    /\ \A i \in 1..Len(b) :
         a[i] = [b[i] EXCEPT !.function_id = a[i].function_id,
                             !.status = a[i].status,
                             !.container_image = a[i].container_image]
SameFindings(b, a) ==
    SameLocal(b.local_nim, a.local_nim) /\ SameHosted(b.hosted_nim, a.hosted_nim)
Unenriched ==
    /\ source_code = unwrap(pipe.before).source_code
    /\ actions_workflow = unwrap(pipe.before).actions_workflow

\* C6: whatever the remote does, enrich_all_findings adds, removes and reorders no
\* finding and changes none of repository, file_path, line_number, match_context,
\* image_url, tag, endpoint_url, model_name: only resolved_tag, function_id, status
\* and container_image change. When every remote call fails, the finding sets after
\* enrichment equal those before it.
C6_EnrichmentFrame ==
    is_some(pipe.before)
        => /\ SameFindings(unwrap(pipe.before).source_code, source_code)
           /\ SameFindings(unwrap(pipe.before).actions_workflow, actions_workflow)
           /\ ~obs.some_ok => Unenriched

\* Reached: enrichment ran over a container reference and a hosted reference, every
\* lookup failed, and the findings are what they were.
C6_Witness ==
    /\ BatchDone
    /\ ~obs.some_ok
    /\ \E p \in Positions({1, 2}), q \in Positions({3, 4}) : {p, q} \subseteq obs.failed
    /\ Unenriched

\* C7: enrich_all_findings called without an API key (None, or an empty string)
\* uses no client: no request is issued, both finding sets stay as they were, and
\* the run goes on to build the report from them.
C7_NoKeyNoEnrichment ==
    (pipe.api_key = None \/ pipe.api_key = Some(""))
        => /\ ~pipe.built
           /\ client.api_key = ""
           /\ net = <<>>
           /\ ret = NoCall
           /\ pipe.pc # "enriching"
           /\ is_some(pipe.before) => Unenriched
           /\ pipe.pc = "enriched" => ENABLED Report
           /\ pipe.pc = "reported"
                => /\ unwrap(report).source_code = unwrap(pipe.before).source_code
                   /\ unwrap(report).actions_workflow
                         = unwrap(pipe.before).actions_workflow

\* Reached: a run with an empty key built its report, holding a reference declared
\* "latest" and a hosted reference with a model name, neither enriched.
C7_Witness ==
    /\ pipe.api_key = Some("")
    /\ pipe.pc = "reported"
    /\ \E m \in Range(unwrap(report).source_code.local_nim) :
          m.tag = "latest" /\ m.resolved_tag = None
    /\ \E h \in Range(unwrap(report).source_code.hosted_nim) :
          is_some(h.model_name) /\ h.function_id = None

(***************************************************************************)
(* Further properties of the client: queries against lookups.              *)
(***************************************************************************)

\* The function list a find_function_by_model / query_hosted_nim step worked on:
\* the kept list, which after the step is the list the step fetched or found kept.
ListOf(c) == unwrap(c.function_list_cache)
NoMatch(c, model_name) ==
    is_some(c.function_list_cache) /\ matches(ListOf(c), model_name) = {}

\* On a client that holds the list, the two operations asked the same model name.
SameListBothWays ==
    \A model_name \in ClientModels :
        NoMatch(client, model_name)
            => /\ find_function_by_model(client, model_name,
                                         AnyRemote(ListBodies)).result = Ok(None)
               /\ ~query_hosted_nim(client, model_name, AnyRemote(ListBodies),
                                    AnyRemote(VersionBodies)).result.ok
               /\ ~SentTo(query_hosted_nim(client, model_name, AnyRemote(ListBodies),
                                           AnyRemote(VersionBodies)).net, "versions")

\* C11: when no function of the fetched list matches the model name,
\* find_function_by_model returns Ok(None), not an error, whereas query_hosted_nim
\* with the same model name on the same list fails and sends no versions request.
C11_NoMatchIsEmptyOrError ==
    /\ []SameListBothWays
    /\ [][/\ (NewCall("find_function_by_model") /\ NoMatch(client', ret'.arg))
                => ret'.result = Ok(None)
          /\ (NewCall("query_hosted_nim") /\ NoMatch(client', ret'.arg))
                => /\ ~ret'.result.ok
                   /\ ~SentTo(net', "versions")]_vars

\* Reached: find_function_by_model answered Ok(None) for a model no function of
\* the list matches, and query_hosted_nim for that model, on the list kept since,
\* failed without any request.
C11_Witness ==
    /\ ret.n >= 2
    /\ ret.op = "query_hosted_nim"
    /\ ret.arg = ModelOther
    /\ ret.result = Err("No function found for model")
    /\ net = <<>>
    /\ NoMatch(client, ModelOther)
    /\ find_function_by_model(client, ModelOther, AnyRemote(ListBodies)).result = Ok(None)

\* A query leaves the tag cache and the function-detail cache as they were.
QueryKeepsMaps ==
    (NewCall("query_local_nim") \/ NewCall("query_hosted_nim"))
        => /\ client'.local_nim_cache = client.local_nim_cache
           /\ client'.hosted_nim_cache = client.hosted_nim_cache

\* query_local_nim asks the repository endpoint whatever the tag cache holds.
QueryLocalAlwaysAsks ==
    NewCall("query_local_nim")
        => ((auth_headers(client.api_key) /\ parse_image_url(ret'.arg) # None)
                => SentTo(net', "repos"))

\* C12 as stated: a query leaves the tag cache, the function-detail cache and the
\* kept function list as they were, and issues its remote lookups (the repository
\* request; the function-list request) whatever is cached.
C12_Original ==
    [][/\ QueryKeepsMaps
       /\ QueryLocalAlwaysAsks
       /\ (NewCall("query_local_nim") \/ NewCall("query_hosted_nim"))
             => client'.function_list_cache = client.function_list_cache
       /\ NewCall("query_hosted_nim")
             => (auth_headers(client.api_key) => SentTo(net', "functions"))]_vars

\* C12 (amended): a query never reads or writes the tag cache or the
\* function-detail cache: query_local_nim leaves the whole client as it was and
\* sends its repository request even for a cached image, and query_hosted_nim
\* sends its versions request for the function it found even when that function's
\* details are cached. The function list is the exception: query_hosted_nim goes
\* through find_function_by_model, so it uses a kept list without a request and
\* keeps the list it fetches.
C12_QueriesBypassMaps ==
    [][/\ QueryKeepsMaps
       /\ QueryLocalAlwaysAsks
       /\ NewCall("query_local_nim") => client' = client
       /\ NewCall("query_hosted_nim")
             => /\ is_some(client.function_list_cache)
                      => /\ client'.function_list_cache = client.function_list_cache
                         /\ ~SentTo(net', "functions")
                /\ (client.function_list_cache = None /\ auth_headers(client.api_key))
                      => SentTo(net', "functions")
                /\ (client.function_list_cache = None /\ ret'.result.ok)
                      => is_some(client'.function_list_cache)
                /\ (is_some(client'.function_list_cache)
                      /\ matches(ListOf(client'), ret'.arg) # {}
                      /\ auth_headers(client.api_key))
                      => SentTo(net', "versions")]_vars

\* Reached: the details of a function were cached, then a query for a model of
\* that function fetched the list, kept it, and still asked the versions endpoint.
C12_Witness ==
    /\ ret.n = 2
    /\ ret.op = "query_hosted_nim"
    /\ ret.result.ok
    /\ SentTo(net, "functions")
    /\ SentTo(net, "versions")
    /\ is_some(client.function_list_cache)
    /\ \E f \in DOMAIN client.hosted_nim_cache :
         first_match(ListOf(client), matches(ListOf(client), ret.arg)) = Some(f)

(***************************************************************************)
(* SpecFindings: deduplicate_results and ScanReport::new called directly   *)
(* on finding sets, as the unit tests of scanner.rs and models.rs call     *)
(* them: the lists may hold several findings of one place.                 *)
(***************************************************************************)

MaxWorkflow == 1

\* Findings of general-source files: two lines of one place (same repository,
\* file and line number, different content), and the image of the first at
\* another place.
FoundLocal ==
    {unwrap(extract_local_nim(x[1], x[3], x[2], x[4])) :
        x \in {<<LineNoTag, SrcFile, 1, "r1">>, <<LineTagged, SrcFile, 1, "r1">>,
               <<LineNoTag, SrcFile, 2, "r2">>}}
FoundHosted ==
    {extract_hosted_nim(x[1], x[3], x[2], x[4])[1] :
        x \in {<<HLineModel, SrcFile, 1, "r1">>, <<HLineChat, SrcFile, 1, "r1">>}}
\* Findings of workflow files.
FoundWorkflowLocal ==
    {unwrap(extract_local_nim(x[1], x[3], x[2], x[4])) :
        x \in {<<LineNoTag, WfFile, 1, "r1">>}}
FoundWorkflowHosted ==
    {extract_hosted_nim(x[1], x[3], x[2], x[4])[1] :
        x \in {<<HLineModel, WfFile, 3, "r3">>}}

InitFindings ==
    /\ source_code \in [local_nim : SeqsUpTo(FoundLocal, MaxFindings),
                        hosted_nim : SeqsUpTo(FoundHosted, MaxFindings)]
    /\ actions_workflow \in [local_nim : SeqsUpTo(FoundWorkflowLocal, MaxWorkflow),
                             hosted_nim : SeqsUpTo(FoundWorkflowHosted, MaxWorkflow)]
    /\ all_local = <<>>
    /\ all_hosted = <<>>
    /\ pipe = [pc |-> "idle", phase |-> 0, idx |-> 0, api_key |-> None,
               before |-> None, built |-> FALSE]
    /\ report = None
    /\ walk = NoWalk
    /\ IdleWorkers
    /\ IdleClient
    /\ IdleRetry

\* deduplicate_results(&mut source_code)
DoDeduplicateSource ==
    /\ source_code' = deduplicate_results(source_code)
    /\ ret' = [op |-> "deduplicate_results", arg |-> source_code,
               result |-> source_code', n |-> ret.n]
    /\ UNCHANGED <<retryVars, client, net, obs, all_local, all_hosted,
                   actions_workflow, pipe, report, walk, par, fs>>

\* deduplicate_results(&mut actions_workflow)
DoDeduplicateWorkflow ==
    /\ actions_workflow' = deduplicate_results(actions_workflow)
    /\ ret' = [op |-> "deduplicate_results", arg |-> actions_workflow,
               result |-> actions_workflow', n |-> ret.n]
    /\ UNCHANGED <<retryVars, client, net, obs, all_local, all_hosted,
                   source_code, pipe, report, walk, par, fs>>

\* ScanReport::new(total_repos, source_code, actions_workflow)
DoReport ==
    /\ \E local_order \in into_values(aggregate_local(source_code, actions_workflow)),
          hosted_order \in into_values(aggregate_hosted(source_code, actions_workflow)) :
         report' = Some(ScanReport_new(source_code, actions_workflow,
                                       local_order, hosted_order))
    /\ ret' = [op |-> "ScanReport_new", arg |-> <<source_code, actions_workflow>>,
               result |-> report', n |-> ret.n]
    /\ UNCHANGED <<retryVars, client, net, obs, findingVars, pipe, walk, par, fs>>

NextFindings == DoDeduplicateSource \/ DoDeduplicateWorkflow \/ DoReport

SpecFindings == InitFindings /\ [][NextFindings]_vars

\* The place of a finding, and the positions of a list that are the first of
\* their place.
PlaceOf(m) == <<m.repository, m.file_path, m.line_number>>
FirstOfPlace(seq) ==
    {i \in 1..Len(seq) : \A j \in 1..(i - 1) : PlaceOf(seq[j]) # PlaceOf(seq[i])}

\* kept is seq restricted to the positions at, in the order of seq.
KeptAt(kept, seq, at) ==
    /\ Len(kept) = Cardinality(at)
    /\ \E f \in [1..Len(kept) -> at] :
         /\ \A a, b \in 1..Len(kept) : a < b => f[a] < f[b]
         /\ \A k \in 1..Len(kept) : kept[k] = seq[f[k]]

\* C13: deduplicate_results keeps, in the container list and in the hosted list
\* independently of each other, exactly the first entry of each (repository,
\* file_path, line_number), in the original order, whatever the other fields of
\* the later entries; calling it on its own result changes nothing.
C13_FirstSeenKept ==
    ret.op = "deduplicate_results"
        => /\ KeptAt(ret.result.local_nim, ret.arg.local_nim,
                     FirstOfPlace(ret.arg.local_nim))
           /\ KeptAt(ret.result.hosted_nim, ret.arg.hosted_nim,
                     FirstOfPlace(ret.arg.hosted_nim))
           /\ deduplicate_results(ret.result) = ret.result

\* Reached: the second container reference of a place was dropped although its
\* image differs from the first, and the hosted reference of that same place
\* stayed.
C13_Witness ==
    /\ ret.op = "deduplicate_results"
    /\ Len(ret.arg.local_nim) = 2
    /\ PlaceOf(ret.arg.local_nim[1]) = PlaceOf(ret.arg.local_nim[2])
    /\ ret.arg.local_nim[1].tag # ret.arg.local_nim[2].tag
    /\ ret.result.local_nim = <<ret.arg.local_nim[1]>>
    /\ Len(ret.arg.hosted_nim) = 1
    /\ PlaceOf(ret.arg.hosted_nim[1]) = PlaceOf(ret.arg.local_nim[1])
    /\ ret.result.hosted_nim = ret.arg.hosted_nim
    /\ deduplicate_results(ret.result) = ret.result

(***************************************************************************)
(* scan_directory: the walk over the tree of one repository, and scan_file *)
(* on the files it keeps.                                                  *)
(***************************************************************************)

\* Path::components(): the Normal components of a path.
components(path) == SelectSeq(split(path, "/"), LAMBDA name : name # <<>>)

SKIP_DIRS ==
    {<<"node_modules">>, <<"vendor">>, <<"__pycache__">>, <<".venv">>, <<"venv">>,
     <<"target">>, <<"build">>, <<"dist">>, <<".tox">>, <<".pytest_cache">>,
     <<".mypy_cache">>, <<"eggs">>, <<".eggs">>}

\* A mutant of skip_component: a name is skipped when a denylisted name or .git
\* is a part of it.
skip_component_substring(name_str) ==
    \E k \in 1..Len(name_str) : <<name_str[k]>> = <<".git">> \/ <<name_str[k]>> \in SKIP_DIRS

\* if name_str == ".git" { return false } if SKIP_DIRS.contains(&name_str) { .. }
skip_component(name_str) == name_str = <<".git">> \/ name_str \in SKIP_DIRS

\* for component in path.components() { .. return false .. }
in_skipped_dir(path) ==
    \E k \in 1..Len(components(path)) : skip_component(components(path)[k])

SCAN_EXTENSIONS ==
    {".py", ".yaml", ".yml", ".sh", ".bash", ".js", ".ts", ".jsx", ".tsx",
     ".dockerfile", ".env", ".json", ".toml", ".cfg", ".ini", ".conf"}

\* Path::extension of a file name: what follows its last dot, if the name has a
\* stem before it. The tokens that begin with a dot:
DotTokens == SCAN_EXTENSIONS \cup {".txt", ".md"}
extension(file_name) ==
    IF Len(file_name) >= 2 /\ file_name[Len(file_name)] \in DotTokens
    THEN Some(file_name[Len(file_name)])
    ELSE None

should_scan_name(file_name) ==
    \/ starts_with(to_lowercase(file_name), <<"dockerfile">>)
    \/ /\ is_some(extension(file_name))
       /\ to_lowercase_tok(unwrap(extension(file_name))) \in SCAN_EXTENSIONS

should_scan_file(path) ==
    IF components(path) = <<>> THEN FALSE
    ELSE should_scan_name(components(path)[Len(components(path))])

ContextRange == 10

\* find_model_name_in_context(lines, current_line, range): current_line counts
\* from 0, lines[j] is line j counted from 1; line.context_model is capture 1 of
\* model_name_re on the line.
find_model_name_in_context(lines, current_line, range) ==
    LET start == IF current_line >= range THEN current_line - range ELSE 0
        end == IF current_line + range <= Len(lines)
               THEN current_line + range ELSE Len(lines)
        back == {j \in (start + 1)..current_line : is_some(lines[j].context_model)}
        forth == {j \in (current_line + 2)..end : is_some(lines[j].context_model)}
    IN
    IF back # {}
    THEN lines[CHOOSE j \in back : \A k \in back : k <= j].context_model
    ELSE IF forth # {}
    THEN lines[CHOOSE j \in forth : \A k \in forth : j <= k].context_model
    ELSE None

\* scan_file, on the hosted matches of one line of a YAML file: a match with an
\* endpoint and no model name takes the model name of a nearby line.
complete_from_context(hosted, lines, line_num) ==
    [k \in 1..Len(hosted) |->
        IF hosted[k].model_name = None /\ is_some(hosted[k].endpoint_url)
        THEN [hosted[k] EXCEPT !.model_name =
                  find_model_name_in_context(lines, line_num, ContextRange)]
        ELSE hosted[k]]

\* The loop of scan_file from line line_number on: local_matches.
RECURSIVE scan_local(_, _, _, _)
scan_local(lines, line_number, relative_path, repository) ==
    IF line_number > Len(lines) THEN <<>>
    ELSE extract_local_nim(lines[line_number], line_number, relative_path, repository)
            \o scan_local(lines, line_number + 1, relative_path, repository)

\* The loop of scan_file from line line_number on: hosted_matches.
RECURSIVE scan_hosted(_, _, _, _, _)
scan_hosted(lines, line_number, relative_path, repository, is_yaml) ==
    IF line_number > Len(lines) THEN <<>>
    ELSE (IF is_yaml
          THEN complete_from_context(
                   extract_hosted_nim(lines[line_number], line_number,
                                      relative_path, repository),
                   lines, line_number - 1)
          ELSE extract_hosted_nim(lines[line_number], line_number,
                                  relative_path, repository))
            \o scan_hosted(lines, line_number + 1, relative_path, repository, is_yaml)

\* path.strip_prefix(repo_root).unwrap_or(path)
relative_to(path, repo_root) ==
    IF is_some(strip_prefix(path, repo_root \o <<"/">>))
    THEN unwrap(strip_prefix(path, repo_root \o <<"/">>))
    ELSE path

\* scan_file once relative_path is known; content is None for a file that
\* cannot be read.
scan_file_at(relative_path, repository, content) ==
    IF content = None
    THEN [local |-> <<>>, hosted |-> <<>>]
    ELSE [local |-> scan_local(unwrap(content), 1, relative_path, repository),
          hosted |-> scan_hosted(unwrap(content), 1, relative_path, repository,
                                 ends_with(relative_path, <<".yml">>)
                                     \/ ends_with(relative_path, <<".yaml">>))]

scan_file(path, repository, repo_root, content) ==
    scan_file_at(relative_to(path, repo_root), repository, content)

\* What scan_directory does with one entry of the tree: where the entry leaves
\* the chain of filters, and what scan_file found in it if it is scanned.
\* entry = [path: relative to the root, is_file, ignored: by the ignore rules
\* of the walker, content: Option of its lines].
visit_entry(root, repository, entry) ==
    IF entry.ignored
    THEN [entry |-> entry, stage |-> "ignored", local |-> <<>>, hosted |-> <<>>]
    ELSE IF ~entry.is_file
    THEN [entry |-> entry, stage |-> "not_file", local |-> <<>>, hosted |-> <<>>]
    ELSE IF in_skipped_dir(root \o <<"/">> \o entry.path)
    THEN [entry |-> entry, stage |-> "skipped_dir", local |-> <<>>, hosted |-> <<>>]
    ELSE IF ~should_scan_file(root \o <<"/">> \o entry.path)
    THEN [entry |-> entry, stage |-> "not_scanned", local |-> <<>>, hosted |-> <<>>]
    ELSE [entry |-> entry, stage |-> "scanned",
          local |-> scan_file(root \o <<"/">> \o entry.path, repository, root,
                              entry.content).local,
          hosted |-> scan_file(root \o <<"/">> \o entry.path, repository, root,
                               entry.content).hosted]

(***************************************************************************)
(* SpecScan: run_scan on one repository, from the walk of its tree to the  *)
(* report.                                                                 *)
(***************************************************************************)

MaxEntries == 2

\* Lines, with the captures of every pattern of scanner.rs on them.
PlainLine(text) ==
    [text |-> text, full |-> None, no_tag |-> None, endpoint |-> None,
     model_assign |-> None, chatnvidia |-> None, nvidia_embeddings |-> None,
     nvidia_rerank |-> None, context_model |-> None]
ScanLines ==
    [from |->
        [PlainLine("FROM nvcr.io/nim/nvidia/nemo-retriever") EXCEPT
            !.no_tag = Some(<<"nvidia", "/", "nemo-retriever">>)],
     two_images |->
        [PlainLine("docker pull nvcr.io/nim/nvidia/llama nvcr.io/nim/meta/rerank:1.0")
            EXCEPT !.full = Some(<<<<"meta", "/", "rerank">>, "1.0">>),
                   !.no_tag = Some(<<"nvidia", "/", "llama">>)],
     base_url |->
        [PlainLine("base_url: https://integrate.api.nvidia.com/v1") EXCEPT
            !.endpoint = Some(<<"https://", "integrate.api.nvidia.com", "/", "v1">>)],
     model_name |->
        [PlainLine("model_name: meta/Llama.3") EXCEPT
            !.context_model = Some(ModelLlama)],
     chat |->
        [PlainLine("llm = ChatNVIDIA(model='google/gemma')") EXCEPT
            !.model_assign = Some(ModelOther), !.chatnvidia = Some(ModelOther),
            !.context_model = Some(ModelOther)],
     nothing |-> PlainLine("print('hello')")]

File(path, content) ==
    [path |-> path, is_file |-> TRUE, ignored |-> FALSE, content |-> content]

\* The entries a tree is made of.
TreeEntries ==
    {File(<<"Dockerfile">>, Some(<<ScanLines.from>>)),
     File(<<".git", "hub", "/", "workflows", "/", "ci", ".yml">>,
          Some(<<ScanLines.model_name, ScanLines.base_url>>)),
     File(<<"docs", ".git", "hub", "/", "workflows", "/", "ci", ".yml">>,
          Some(<<ScanLines.two_images>>)),
     File(<<".git", "hub", "/", "actions", "/", "test", ".yml">>,
          Some(<<ScanLines.base_url, ScanLines.nothing>>)),
     File(<<"node_modules", "/", "pkg", "/", "app", ".py">>, Some(<<ScanLines.from>>)),
     File(<<"re", "build", "/", "app", ".py">>, Some(<<ScanLines.nothing, ScanLines.chat>>)),
     File(<<".git", "/", "hooks", "/", "run", ".sh">>, Some(<<ScanLines.from>>)),
     File(<<"src", "/", "notes", ".txt">>, Some(<<ScanLines.from>>)),
     File(<<"src", "/", "locked", ".py">>, None),
     [File(<<"out", "/", "app", ".py">>, Some(<<ScanLines.from>>)) EXCEPT !.ignored = TRUE],
     [File(<<"src">>, None) EXCEPT !.is_file = FALSE]}

\* Where the repository is cloned: workdir.join(name).
CloneDirs == {<<"work", "/", "r1">>, <<"dist", "/", "r1">>}

InitScan ==
    /\ \E root \in CloneDirs :
       \E tree \in {t \in SUBSET TreeEntries : Cardinality(t) <= MaxEntries} :
         walk = [NoWalk EXCEPT !.root = root, !.pending = tree]
    /\ IdleWorkers
    /\ \E k \in {None, Some("nvapi-k")} :
         pipe = [pc |-> "scanning", phase |-> 0, idx |-> 0, api_key |-> k,
                 before |-> None, built |-> FALSE]
    /\ all_local = <<>>
    /\ all_hosted = <<>>
    /\ source_code = NimFindings_new
    /\ actions_workflow = NimFindings_new
    /\ report = None
    /\ IdleClient
    /\ IdleRetry

\* scan_directory on the next entry the walker comes to (in any order).
ScanEntry ==
    /\ pipe.pc = "scanning"
    /\ \E entry \in walk.pending :
       \E v \in {visit_entry(walk.root, "r1", entry)} :
         walk' = [walk EXCEPT !.pending = @ \ {entry},
                              !.visited = @ \cup {[entry |-> v.entry, stage |-> v.stage]},
                              !.local = @ \o v.local,
                              !.hosted = @ \o v.hosted]
    /\ UNCHANGED <<retryVars, clientVars, findingVars, pipe, report, par, fs>>

\* scan_directory returns; run_scan: all_local.extend(local), all_hosted.extend(hosted)
ScanReturn ==
    /\ pipe.pc = "scanning"
    /\ walk.pending = {}
    /\ all_local' = all_local \o walk.local
    /\ all_hosted' = all_hosted \o walk.hosted
    /\ pipe' = [pipe EXCEPT !.pc = "scanned"]
    /\ UNCHANGED <<retryVars, clientVars, source_code, actions_workflow, report, walk, par, fs>>

NextScan == ScanEntry \/ ScanReturn \/ Next

SpecScan == InitScan /\ [][NextScan]_vars

(***************************************************************************)
(* Properties of the scan: classification, extraction and the walk.        *)
(***************************************************************************)

\* The path as a list of segments, after '\' is replaced by '/'.
Segments(file_path) == split(replace(file_path, "\\", "/"), "/")

\* .github/workflows occurs in the path as two whole segments, one after the
\* other, and the path ends in .yml or .yaml.
InWorkflowDir(file_path) ==
    /\ \E k \in 1..(Len(Segments(file_path)) - 1) :
         /\ Segments(file_path)[k] = <<".git", "hub">>
         /\ Segments(file_path)[k + 1] = <<"workflows">>
    /\ \/ ends_with(replace(file_path, "\\", "/"), <<".yml">>)
       \/ ends_with(replace(file_path, "\\", "/"), <<".yaml">>)

Categorized == pipe.pc \notin {"scanning", "scanned"}

\* C14: a path is classified as a workflow file exactly if .github/workflows
\* occurs in it as whole path segments and it ends in .yml or .yaml, and
\* categorize_results puts every finding of the scan in exactly one of the two
\* categories by that rule.
C14_WorkflowBySegments ==
    Categorized
        => /\ \A m \in Range(source_code.local_nim) \cup Range(source_code.hosted_nim) :
                ~InWorkflowDir(m.file_path)
           /\ \A m \in Range(actions_workflow.local_nim)
                          \cup Range(actions_workflow.hosted_nim) :
                InWorkflowDir(m.file_path)
           /\ \A m \in Range(walk.local) :
                (\E n \in Range(source_code.local_nim) : PlaceOf(n) = PlaceOf(m))
                    # (\E n \in Range(actions_workflow.local_nim) : PlaceOf(n) = PlaceOf(m))
           /\ \A m \in Range(walk.hosted) :
                (\E n \in Range(source_code.hosted_nim) : PlaceOf(n) = PlaceOf(m))
                    # (\E n \in Range(actions_workflow.hosted_nim) : PlaceOf(n) = PlaceOf(m))
           /\ Len(source_code.local_nim) + Len(actions_workflow.local_nim)
                = Len(walk.local)
           /\ Len(source_code.hosted_nim) + Len(actions_workflow.hosted_nim)
                = Len(walk.hosted)

(***************************************************************************)
(* Properties of the report: the aggregated view and the summary.          *)
(***************************************************************************)

\* The findings a report was built from, each with the name of its category:
\* <<category, position, finding>>.
ReportedLocal(r) ==
    {<<"source_code", i, r.source_code.local_nim[i]>> :
        i \in 1..Len(r.source_code.local_nim)}
    \cup {<<"actions_workflow", i, r.actions_workflow.local_nim[i]>> :
            i \in 1..Len(r.actions_workflow.local_nim)}
ReportedHosted(r) ==
    {<<"source_code", i, r.source_code.hosted_nim[i]>> :
        i \in 1..Len(r.source_code.hosted_nim)}
    \cup {<<"actions_workflow", i, r.actions_workflow.hosted_nim[i]>> :
            i \in 1..Len(r.actions_workflow.hosted_nim)}

\* The identity of a container reference and of a hosted reference, and of the
\* entries made of them.
LocalIdentity(m) == <<m.image_url, m.tag>>
HostedIdentity(m) == IF is_some(m.model_name) THEN m.model_name ELSE m.endpoint_url

\* The location record a finding of a category leaves.
LocationOf(x) ==
    [source_type |-> x[1], repository |-> x[3].repository,
     file_path |-> x[3].file_path, line_number |-> x[3].line_number,
     match_context |-> x[3].match_context]

RECURSIVE SumOfLocations(_)
SumOfLocations(entries) ==
    IF entries = <<>> THEN 0
    ELSE Len(Head(entries).locations) + SumOfLocations(Tail(entries))

\* entries, whose identities are ids, has one entry for each identity of found
\* and no other; the entry of an identity holds one location for each finding
\* of that identity. found holds <<category, position, finding, identity>>.
OneEntryPerIdentity(entries, ids, found) ==
    /\ \A a, b \in 1..Len(entries) : a # b => ids[a] # ids[b]
    /\ {ids[a] : a \in 1..Len(entries)} = {x[4] : x \in found}
    /\ \A a \in 1..Len(entries) :
         /\ Len(entries[a].locations) = Cardinality({x \in found : x[4] = ids[a]})
         /\ \A x \in found :
              x[4] = ids[a]
                  => \E k \in 1..Len(entries[a].locations) :
                        entries[a].locations[k] = LocationOf(x)
    /\ SumOfLocations(entries) = Cardinality(found)

C16_SameOrderEveryRun ==
    [][(/\ is_some(report)
        /\ is_some(report')
        /\ unwrap(report').source_code = unwrap(report).source_code
        /\ unwrap(report').actions_workflow = unwrap(report).actions_workflow
        /\ deduplicate_results(unwrap(report).source_code) = unwrap(report).source_code
        /\ deduplicate_results(unwrap(report).actions_workflow)
              = unwrap(report).actions_workflow)
          => unwrap(report').aggregated = unwrap(report).aggregated]_vars

\* The findings of one category among found.
InCategory(found, category) == {x \in found : x[1] = category}

\* C17: the summary of a report holds, for each category, the number of
\* container references and of hosted references of that category; the totals
\* are the sums over the two categories; repos_with_nim is the number of
\* distinct repository names among all findings of both families and categories.
C17_SummaryCounts ==
    is_some(report)
        => /\ unwrap(report).summary.source_code.local_nim
                = Cardinality(InCategory(ReportedLocal(unwrap(report)), "source_code"))
           /\ unwrap(report).summary.source_code.hosted_nim
                = Cardinality(InCategory(ReportedHosted(unwrap(report)), "source_code"))
           /\ unwrap(report).summary.actions_workflow.local_nim
                = Cardinality(InCategory(ReportedLocal(unwrap(report)),
                                         "actions_workflow"))
           /\ unwrap(report).summary.actions_workflow.hosted_nim
                = Cardinality(InCategory(ReportedHosted(unwrap(report)),
                                         "actions_workflow"))
           /\ unwrap(report).summary.total_local_nim
                = unwrap(report).summary.source_code.local_nim
                    + unwrap(report).summary.actions_workflow.local_nim
           /\ unwrap(report).summary.total_hosted_nim
                = unwrap(report).summary.source_code.hosted_nim
                    + unwrap(report).summary.actions_workflow.hosted_nim
           /\ unwrap(report).summary.repos_with_nim
                = Cardinality({x[3].repository :
                                  x \in ReportedLocal(unwrap(report))
                                          \cup ReportedHosted(unwrap(report))})

\* Reached: five findings, two of them hosted, from three repositories, one of
\* which occurs only in a hosted reference of a workflow file.
C17_Witness ==
    /\ is_some(report)
    /\ unwrap(report).summary.total_local_nim = 3
    /\ unwrap(report).summary.total_hosted_nim = 2
    /\ unwrap(report).summary.source_code.local_nim = 2
    /\ unwrap(report).summary.actions_workflow.hosted_nim = 1
    /\ unwrap(report).summary.repos_with_nim = 3
    /\ \E i \in 1..Len(unwrap(report).actions_workflow.hosted_nim) :
         unwrap(report).actions_workflow.hosted_nim[i].repository = "r3"

\* Every hosted reference there is, wherever the run holds it.
HostedRefs ==
    Range(walk.hosted) \cup Range(all_hosted) \cup Range(source_code.hosted_nim)
        \cup Range(actions_workflow.hosted_nim)

\* The files the walk has scanned, and the hosted references it holds for one
\* line of one of them.
ScannedFiles == {v.entry : v \in {w \in walk.visited : w.stage = "scanned"}}
HostedOfLine(path, line_number) ==
    {k \in 1..Len(walk.hosted) :
        walk.hosted[k].file_path = path /\ walk.hosted[k].line_number = line_number}

\* No pattern of extract_hosted_nim matches the line.
NoHostedPattern(line) ==
    /\ line.endpoint = None
    /\ line.model_assign = None
    /\ line.chatnvidia = None
    /\ line.nvidia_embeddings = None
    /\ line.nvidia_rerank = None

\* C18: every hosted reference, at every point of the run, has an endpoint URL
\* or a model name; a line yields at most one hosted reference, and none if it
\* has neither; so no reference takes the "unknown-<line>" key of the aggregator.
C18_EndpointOrModel ==
    /\ \A m \in HostedRefs : is_some(m.endpoint_url) \/ is_some(m.model_name)
    /\ \A m \in HostedRefs : hosted_key(m) # <<"unknown-", ToString(m.line_number)>>
    /\ \A f \in {g \in ScannedFiles : is_some(g.content)} :
       \A i \in 1..Len(unwrap(f.content)) :
         /\ Cardinality(HostedOfLine(f.path, i)) <= 1
         /\ NoHostedPattern(unwrap(f.content)[i]) => HostedOfLine(f.path, i) = {}
    /\ is_some(report)
         => \A a \in 1..Len(unwrap(report).aggregated.hosted_nim) :
              \/ is_some(unwrap(report).aggregated.hosted_nim[a].endpoint_url)
              \/ is_some(unwrap(report).aggregated.hosted_nim[a].model_name)

\* Reached: a report after enrichment of a tree with two YAML files: in the
\* workflow file, the line with only a model name gave no reference and the
\* endpoint of the next line took that model name; in the other file the
\* endpoint stayed without a model name.
C18_Witness ==
    /\ pipe.pc = "reported"
    /\ pipe.built
    /\ Len(actions_workflow.hosted_nim) = 1
    /\ actions_workflow.hosted_nim[1].line_number = 2
    /\ is_some(actions_workflow.hosted_nim[1].endpoint_url)
    /\ actions_workflow.hosted_nim[1].model_name = Some(ModelLlama)
    /\ is_some(actions_workflow.hosted_nim[1].function_id)
    /\ Len(source_code.hosted_nim) = 1
    /\ is_some(source_code.hosted_nim[1].endpoint_url)
    /\ source_code.hosted_nim[1].model_name = None
    /\ Len(unwrap(report).aggregated.hosted_nim) = 2

\* The container references the walk holds for one line of a file.
LocalOfLine(path, line_number) ==
    {k \in 1..Len(walk.local) :
        walk.local[k].file_path = path /\ walk.local[k].line_number = line_number}

\* Enrichment has not started.
BeforeEnrichment ==
    pipe.pc \in {"scanning", "scanned", "categorized", "dedup_source", "deduped"}

\* C19: a line yields at most one container reference: with the tag and the
\* image of the tag-bearing pattern if that matches; otherwise with the tag
\* "latest" and the image of the pattern without tag if that matches; otherwise
\* none. resolved_tag is unset until enrichment runs. The line
\* `FROM nvcr.io/nim/nvidia/nemo-retriever` as line 1 yields image
\* nvcr.io/nim/nvidia/nemo-retriever, tag "latest", line 1.
C19_OneContainerRefPerLine ==
    /\ \A f \in {g \in ScannedFiles : is_some(g.content)} :
       \A i \in 1..Len(unwrap(f.content)) :
         /\ Cardinality(LocalOfLine(f.path, i)) <= 1
         /\ is_some(unwrap(f.content)[i].full)
              => \E k \in LocalOfLine(f.path, i) :
                   /\ walk.local[k].tag = unwrap(unwrap(f.content)[i].full)[2]
                   /\ walk.local[k].image_url
                        = <<"nvcr.io", "/", "nim", "/">>
                            \o unwrap(unwrap(f.content)[i].full)[1]
         /\ (unwrap(f.content)[i].full = None /\ is_some(unwrap(f.content)[i].no_tag))
              => \E k \in LocalOfLine(f.path, i) :
                   /\ walk.local[k].tag = "latest"
                   /\ walk.local[k].image_url
                        = <<"nvcr.io", "/", "nim", "/">>
                            \o unwrap(unwrap(f.content)[i].no_tag)
         /\ (unwrap(f.content)[i].full = None /\ unwrap(f.content)[i].no_tag = None)
              => LocalOfLine(f.path, i) = {}
         /\ (i = 1 /\ unwrap(f.content)[i].text = "FROM nvcr.io/nim/nvidia/nemo-retriever")
              => \E k \in LocalOfLine(f.path, i) :
                   /\ walk.local[k].image_url
                        = <<"nvcr.io", "/", "nim", "/", "nvidia", "/", "nemo-retriever">>
                   /\ walk.local[k].tag = "latest"
                   /\ walk.local[k].line_number = 1
    /\ \A m \in Range(walk.local) : m.resolved_tag = None
    /\ BeforeEnrichment => \A m \in LocalRefs : m.resolved_tag = None

\* Reached: the walk is over and holds the reference of the Dockerfile line,
\* tag "latest", and the tagged reference of a line that names two images.
C19_Witness ==
    /\ pipe.pc = "scanned"
    /\ Len(all_local) = 2
    /\ \E k \in 1..2 :
         /\ all_local[k].file_path = <<"Dockerfile">>
         /\ all_local[k].line_number = 1
         /\ all_local[k].tag = "latest"
         /\ all_local[k].image_url
              = <<"nvcr.io", "/", "nim", "/", "nvidia", "/", "nemo-retriever">>
         /\ all_local[k].resolved_tag = None
    /\ \E k \in 1..2 :
         /\ all_local[k].tag = "1.0"
         /\ all_local[k].image_url = <<"nvcr.io", "/", "nim", "/", "meta", "/", "rerank">>

\* The names that exclude a file.
DeniedNames ==
    {<<"node_modules">>, <<"vendor">>, <<"__pycache__">>, <<".venv">>, <<"venv">>,
     <<"target">>, <<"build">>, <<"dist">>, <<".tox">>, <<".pytest_cache">>,
     <<".mypy_cache">>, <<"eggs">>, <<".eggs">>, <<".git">>}

\* One of the components of the path is, as a whole, a denied name.
HasDeniedComponent(path) ==
    \E k \in 1..Len(split(path, "/")) : split(path, "/")[k] \in DeniedNames

\* The files the walker came to and did not leave out by its ignore rules.
WalkedFiles == {v \in walk.visited : v.stage \notin {"ignored", "not_file"}}

\* The path of an entry as the walker yields it: the scan root, then the path
\* inside the tree.
WalkedPath(v) == walk.root \o <<"/">> \o v.entry.path

\* C20: the walk excludes a file exactly when one of the components of its path
\* is, as a whole, a denylisted name or .git; a component that only contains
\* such a name (rebuild, .github) does not exclude it.
C20_ExcludedByWholeComponent ==
    \A v \in WalkedFiles :
        (v.stage = "skipped_dir") <=> HasDeniedComponent(WalkedPath(v))

\* Reached: under work/r1 the file under node_modules was excluded and the
\* workflow file under .github was scanned.
C20_Witness ==
    /\ walk.root = <<"work", "/", "r1">>
    /\ \E v \in walk.visited :
         /\ v.entry.path = <<"node_modules", "/", "pkg", "/", "app", ".py">>
         /\ v.stage = "skipped_dir"
    /\ \E v \in walk.visited :
         /\ v.entry.path = <<".git", "hub", "/", "workflows", "/", "ci", ".yml">>
         /\ v.stage = "scanned"

\* C29: whether the walk excludes a file depends only on the components of its
\* path relative to the scan root; a denylisted name in the path of the scan
\* root itself excludes nothing.
C29_ExcludedByRelativeComponent ==
    \A v \in WalkedFiles :
        (v.stage = "skipped_dir") <=> HasDeniedComponent(v.entry.path)

\* ---------------------------------------------------------------------------
\* Further properties of the retry loop (SpecRetry)
\* ---------------------------------------------------------------------------

\* The seconds slept after a 429 on attempts 1, 2, 3.
BackoffSeconds == <<2, 4, 8>>

\* C26: a 429 on attempt n is followed by a sleep of 2^n seconds (2, 4, 8), a
\* 5xx or a transport failure by a sleep of 1 second, and when n < 3 the sleep
\* is followed by attempt n + 1.
C26_BackoffSchedule ==
    /\ \A n \in 1..Len(rq.hist) :
         Retryable(rq.hist[n]) =>
            /\ Len(rq.sleeps) >= n
            /\ rq.sleeps[n] = IF rq.hist[n] = 429 THEN BackoffSeconds[n] ELSE 1
    /\ \A n \in 1..(MAX_RETRIES - 1) :
         (Len(rq.hist) = n /\ Retryable(rq.hist[n])) =>
            rq.state = "loop" /\ rq.attempt = n + 1

C26_Witness ==
    /\ rq.hist = <<429, 503, 429>>
    /\ rq.sleeps = <<2, 1, 8>>

\* C27: when all 3 attempts end in a 429, a 5xx or a transport failure, the
\* call fails with the error of the third attempt, not of an earlier one.
C27_LastErrorReported ==
    (Len(rq.hist) = MAX_RETRIES /\ \A n \in 1..MAX_RETRIES : Retryable(rq.hist[n])) =>
        /\ rq.state = "err"
        /\ rq.error = Some([kind |-> "exhausted", status |-> rq.hist[MAX_RETRIES]])

C27_Witness ==
    /\ rq.hist = <<429, TransportError, 503>>
    /\ rq.state = "err"
    /\ rq.error = Some([kind |-> "exhausted", status |-> 503])

\* ---------------------------------------------------------------------------
\* The match rules of find_function_by_model (SpecClient)
\* ---------------------------------------------------------------------------

\* The highest-priority rule (1 is highest) by which a function name matches,
\* 0 when it matches by none.
match_rule(func_name_lower, short_name_lower, normalized_name) ==
    IF func_name_lower = <<"ai-">> \o normalized_name THEN 1
    ELSE IF starts_with(func_name_lower, <<"ai-">> \o normalized_name) THEN 2
    ELSE IF func_name_lower = normalized_name THEN 3
    ELSE IF contains(func_name_lower, normalized_name) THEN 4
    ELSE IF contains(func_name_lower, short_name_lower) THEN 5
    ELSE IF contains(short_name_lower, remove(func_name_lower, "ai-")) THEN 6
    ELSE 0

RuleOf(func, model_name) ==
    match_rule(to_lowercase(func.name), to_lowercase(short_name_of(model_name)),
               normalized_name_of(model_name))

\* The function whose id was returned matches, and no function of the list
\* matches by a rule of higher priority.
ReturnedByBestRule(functions, model_name, id) ==
    \E i \in 1..Len(functions) :
        /\ functions[i].id = id
        /\ RuleOf(functions[i], model_name) # 0
        /\ \A j \in 1..Len(functions) :
              RuleOf(functions[j], model_name) # 0
                 => RuleOf(functions[i], model_name) <= RuleOf(functions[j], model_name)

\* C22: the function find_function_by_model returns is one that matches by the
\* highest-priority rule satisfied by any function of the list, whatever the
\* positions of the functions in the list.
C22_BestRuleWins ==
    [][(NewCall("find_function_by_model") /\ ret'.result.ok /\ is_some(ret'.result.val))
          => ReturnedByBestRule(ListOf(client'), ret'.arg, unwrap(ret'.result.val))]_vars

\* What the loop does: the first function of the list that matches by any rule.
FirstMatchInListReturned ==
    [][(NewCall("find_function_by_model") /\ ret'.result.ok /\ is_some(ret'.result.val))
          => \E i \in 1..Len(ListOf(client')) :
                /\ ListOf(client')[i].id = unwrap(ret'.result.val)
                /\ RuleOf(ListOf(client')[i], ret'.arg) # 0
                /\ \A j \in 1..(i - 1) : RuleOf(ListOf(client')[j], ret'.arg) = 0]_vars

\* ---------------------------------------------------------------------------
\* One line with an endpoint URL, scanned by extract_hosted_nim (SpecEndpoint)
\* ---------------------------------------------------------------------------

MaxSegments == 4

\* The segments a URL path is made of; <<>> is the empty segment of "//" or of a
\* trailing "/".
PathSegments ==
    {<<>>, <<"v1">>, <<"cv">>, <<"nvidia">>, <<"rerank">>, <<"chat">>,
     <<"completions">>, <<"embeddings">>}

RECURSIVE slashed(_)
slashed(segments) ==
    IF segments = <<>> THEN <<>>
    ELSE <<"/">> \o Head(segments) \o slashed(Tail(segments))

\* What HOSTED_ENDPOINT finds in a line: https://, one of the hosts, and the
\* rest up to the next blank or quote.
EndpointUrls ==
    {<<"https://", "ai.api.nvidia.com">> \o slashed(segments) :
        segments \in UNION {[1..n -> PathSegments] : n \in 0..MaxSegments}}

\* A line holding an endpoint URL and none of the model patterns.
EndpointLine(url) == [PlainLine(url) EXCEPT !.endpoint = Some(url)]

InitEndpoint ==
    /\ client = [api_key |-> "", local_nim_cache |-> <<>>, hosted_nim_cache |-> <<>>,
                 function_list_cache |-> None]
    /\ net = <<>>
    /\ obs = NoObs
    /\ \E url \in EndpointUrls : ret = [NoCall EXCEPT !.arg = EndpointLine(url)]
    /\ IdleRetry
    /\ IdlePipe

\* extract_hosted_nim(line, 1, "app.py", "r1")
DoExtractHosted ==
    /\ ret.op = "none"
    /\ ret' = [op |-> "extract_hosted_nim", arg |-> ret.arg,
               result |-> Ok(extract_hosted_nim(ret.arg, 1, <<"app", ".py">>, "r1")),
               n |-> 1]
    /\ UNCHANGED <<rq, client, net, obs, pipeVars>>

NextEndpoint == DoExtractHosted

SpecEndpoint == InitEndpoint /\ [][NextEndpoint]_vars

\* The path of a URL after its host, and the segments of that path.
UrlPath(url) == join(Tail(split(SubSeq(url, 2, Len(url)), "/")), "/")
NonEmpty(segments) == SelectSeq(segments, LAMBDA s : s # <<>>)
NonEmptySegments(url) == NonEmpty(split(UrlPath(url), "/"))
OrgSegment(url) == NonEmptySegments(url)[Len(NonEmptySegments(url)) - 1]
ModelSegment(url) == NonEmptySegments(url)[Len(NonEmptySegments(url))]

\* The paths for which no model name is derived.
GenericPath(url) ==
    \/ UrlPath(url) = <<"v1">>
    \/ ends_with(UrlPath(url), <<"/", "chat", "/", "completions">>)
    \/ ends_with(UrlPath(url), <<"/", "embeddings">>)
    \/ ends_with(UrlPath(url), <<"/", "completions">>)
    \/ OrgSegment(url) \in {<<"v1">>, <<"chat">>, <<"embeddings">>}

\* C24: for a line with an endpoint URL and no explicit model name, whenever the
\* URL path has at least two non-empty segments the model name is org/model from
\* the last two non-empty segments, except that there is no model name when the
\* path is a bare v1, ends in /chat/completions, /embeddings or /completions, or
\* the org segment is v1, chat or embeddings.
C24_ModelFromLastTwoSegments ==
    (ret.op = "extract_hosted_nim"
        /\ Len(NonEmptySegments(unwrap(ret.arg.endpoint))) >= 2)
    => /\ Len(ret.result.val) = 1
       /\ ret.result.val[1].model_name
            = IF GenericPath(unwrap(ret.arg.endpoint)) THEN None
              ELSE Some(OrgSegment(unwrap(ret.arg.endpoint)) \o <<"/">>
                        \o ModelSegment(unwrap(ret.arg.endpoint)))

\* ---------------------------------------------------------------------------
\* scan_directory on one file with an endpoint line and model lines around it
\* (SpecContext)
\* ---------------------------------------------------------------------------

MaxLines == 22

\* A YAML line that only model_name_re matches (MODEL_ASSIGN wants quotes).
ModelLine ==
    [PlainLine("model: google/gemma") EXCEPT !.context_model = Some(ModelOther)]

\* A file with the endpoint on line e, model_name: meta/Llama.3 on line p and
\* model: google/gemma on line q (0: on no line).
ContextLines(e, p, q) ==
    [j \in 1..MaxLines |->
        IF j = e THEN ScanLines.base_url
        ELSE IF j = p THEN ScanLines.model_name
        ELSE IF j = q THEN ModelLine
        ELSE ScanLines.nothing]

ContextPaths == {<<"ci", ".yml">>, <<"deploy", ".yaml">>, <<"app", ".py">>}

InitContext ==
    /\ \E path \in ContextPaths, e \in 1..MaxLines, p \in 0..MaxLines, q \in 0..MaxLines :
         walk = [NoWalk EXCEPT !.root = <<"work", "/", "r1">>,
                               !.pending = {File(path, Some(ContextLines(e, p, q)))}]
    /\ IdleWorkers
    /\ pipe = [pc |-> "scanning", phase |-> 0, idx |-> 0, api_key |-> None,
               before |-> None, built |-> FALSE]
    /\ all_local = <<>>
    /\ all_hosted = <<>>
    /\ source_code = NimFindings_new
    /\ actions_workflow = NimFindings_new
    /\ report = None
    /\ IdleClient
    /\ IdleRetry

NextContext == ScanEntry \/ ScanReturn

SpecContext == InitContext /\ [][NextContext]_vars

IsYaml(path) == ends_with(path, <<".yml">>) \/ ends_with(path, <<".yaml">>)

\* The lines of the two windows around line L that hold a model assignment.
BackwardMatches(lines, L) ==
    {j \in 1..Len(lines) :
        j < L /\ L - j <= ContextRange /\ is_some(lines[j].context_model)}
ForwardMatches(lines, L) ==
    {j \in 1..Len(lines) :
        j > L /\ j - L <= ContextRange /\ is_some(lines[j].context_model)}

\* Nearest match backward, else first match forward, else none.
ContextModel(lines, L) ==
    IF BackwardMatches(lines, L) # {}
    THEN lines[CHOOSE j \in BackwardMatches(lines, L) :
                   \A k \in BackwardMatches(lines, L) : k <= j].context_model
    ELSE IF ForwardMatches(lines, L) # {}
    THEN lines[CHOOSE j \in ForwardMatches(lines, L) :
                   \A k \in ForwardMatches(lines, L) : j <= k].context_model
    ELSE None

\* The line gives its hosted finding an endpoint and no model name.
EndpointOnly(line) ==
    /\ is_some(line.endpoint)
    /\ \A m \in Range(extract_hosted_nim(line, 1, <<>>, "r1")) : m.model_name = None

\* C23: in a YAML file a hosted finding on line L with an endpoint and no model
\* name takes the model name of the nearest matching line among L-1 .. L-10, if
\* there is none that of the first matching line among L+1 .. L+10, and stays
\* without a model name if neither window has a match; in a file without a YAML
\* extension it is never completed.
C23_ContextWindows ==
    \A v \in walk.visited :
        v.stage = "scanned" =>
            \A k \in 1..Len(walk.hosted) :
                EndpointOnly(unwrap(v.entry.content)[walk.hosted[k].line_number])
                => walk.hosted[k].model_name
                     = IF IsYaml(v.entry.path)
                       THEN ContextModel(unwrap(v.entry.content),
                                         walk.hosted[k].line_number)
                       ELSE None

\* ---------------------------------------------------------------------------
\* The fields of an aggregate entry (Spec)
\* ---------------------------------------------------------------------------

\* The findings in the order they are merged: source_code, then
\* actions_workflow, each in list order.
MergedLocal(r) == r.source_code.local_nim \o r.actions_workflow.local_nim
MergedHosted(r) == r.source_code.hosted_nim \o r.actions_workflow.hosted_nim

\* The positions, in merge order, of the findings merged into an entry.
LocalMergedInto(r, e) ==
    {i \in 1..Len(MergedLocal(r)) : LocalIdentity(MergedLocal(r)[i]) = LocalIdentity(e)}
HostedMergedInto(r, e) ==
    {i \in 1..Len(MergedHosted(r)) : HostedIdentity(MergedHosted(r)[i]) = HostedIdentity(e)}

Least(S) == CHOOSE i \in S : \A j \in S : i <= j

FirstLocalOf(r, e) == MergedLocal(r)[Least(LocalMergedInto(r, e))]
FirstHostedOf(r, e) == MergedHosted(r)[Least(HostedMergedInto(r, e))]

\* C25: an aggregate entry carries the resolved_tag (container) or the
\* endpoint_url, function_id, status and container_image (hosted) of the first
\* finding merged into it, source_code findings being merged before
\* actions_workflow findings and each list in list order; the first location of
\* the entry is that finding's, and a later finding of the same identity leaves
\* only a location.
C25_FirstMergedFindingWins ==
    is_some(report) =>
        /\ \A a \in 1..Len(unwrap(report).aggregated.local_nim) :
             LET e == unwrap(report).aggregated.local_nim[a] IN
             /\ LocalMergedInto(unwrap(report), e) # {}
             /\ e.resolved_tag = FirstLocalOf(unwrap(report), e).resolved_tag
             /\ Len(e.locations) = Cardinality(LocalMergedInto(unwrap(report), e))
             /\ e.locations[1].file_path = FirstLocalOf(unwrap(report), e).file_path
        /\ \A a \in 1..Len(unwrap(report).aggregated.hosted_nim) :
             LET e == unwrap(report).aggregated.hosted_nim[a] IN
             /\ HostedMergedInto(unwrap(report), e) # {}
             /\ e.endpoint_url = FirstHostedOf(unwrap(report), e).endpoint_url
             /\ e.function_id = FirstHostedOf(unwrap(report), e).function_id
             /\ e.status = FirstHostedOf(unwrap(report), e).status
             /\ e.container_image = FirstHostedOf(unwrap(report), e).container_image
             /\ Len(e.locations) = Cardinality(HostedMergedInto(unwrap(report), e))
             /\ e.locations[1].file_path = FirstHostedOf(unwrap(report), e).file_path

\* Reached: a report whose container entry and whose hosted entry were each
\* merged from a source_code finding that enrichment left bare and a workflow
\* finding of the same identity that enrichment completed; both entries carry
\* the bare fields of the first.
C25_Witness ==
    /\ is_some(report)
    /\ \E a \in 1..Len(unwrap(report).aggregated.local_nim) :
         LET e == unwrap(report).aggregated.local_nim[a] IN
         /\ Len(e.locations) = 2
         /\ e.resolved_tag = None
         /\ unwrap(report).source_code.local_nim[1].resolved_tag = None
         /\ is_some(unwrap(report).actions_workflow.local_nim[1].resolved_tag)
    /\ \E a \in 1..Len(unwrap(report).aggregated.hosted_nim) :
         LET e == unwrap(report).aggregated.hosted_nim[a] IN
         /\ Len(e.locations) = 2
         /\ e.function_id = None
         /\ unwrap(report).source_code.hosted_nim[1].function_id = None
         /\ is_some(unwrap(report).actions_workflow.hosted_nim[1].function_id)

\* C28: after enrichment and aggregation, an aggregated container entry has a
\* resolved_tag whenever at least one of the container findings merged into it
\* has one, whatever lookups failed during enrichment.
C28_ResolvedTagSurvives ==
    is_some(report) =>
        \A a \in 1..Len(unwrap(report).aggregated.local_nim) :
            (\E i \in LocalMergedInto(unwrap(report),
                                      unwrap(report).aggregated.local_nim[a]) :
                is_some(MergedLocal(unwrap(report))[i].resolved_tag))
            => is_some(unwrap(report).aggregated.local_nim[a].resolved_tag)

\* ---------------------------------------------------------------------------
\* scan_directory with its worker threads (SpecWorkers)
\* ---------------------------------------------------------------------------

\* The orders in which the walker can yield the entries of a tree.
Orders(S) ==
    {q \in [1..Cardinality(S) -> S] : \A i, j \in 1..Cardinality(S) : i # j => q[i] # q[j]}

\* let files: Vec<_> = walker.filter_map(..).filter(..).filter(..).collect()
collect_files(root, repository, entries) ==
    SelectSeq(entries, LAMBDA e : visit_entry(root, repository, e).stage = "scanned")

\* A mutant of merge_results: the loop ends at the first file that gave nothing.
RECURSIVE merge_results_stops_at_empty(_, _)
merge_results_stops_at_empty(results, acc) ==
    IF results = <<>> \/ (Head(results).local = <<>> /\ Head(results).hosted = <<>>)
    THEN acc
    ELSE merge_results_stops_at_empty(
             Tail(results),
             [local |-> acc.local \o Head(results).local,
              hosted |-> acc.hosted \o Head(results).hosted])

\* for (local, hosted) in results { all_local.extend(local); all_hosted.extend(hosted) }
RECURSIVE merge_results(_, _)
merge_results(results, acc) ==
    IF results = <<>> THEN acc
    ELSE merge_results(Tail(results),
                       [local |-> acc.local \o Head(results).local,
                        hosted |-> acc.hosted \o Head(results).hosted])

InitWorkers ==
    /\ \E root \in CloneDirs :
       \E tree \in {t \in SUBSET TreeEntries : Cardinality(t) <= MaxEntries} :
         walk = [NoWalk EXCEPT !.root = root, !.pending = tree]
    /\ IdleWorkers
    /\ pipe = [pc |-> "scanning", phase |-> 0, idx |-> 0, api_key |-> None,
               before |-> None, built |-> FALSE]
    /\ all_local = <<>>
    /\ all_hosted = <<>>
    /\ source_code = NimFindings_new
    /\ actions_workflow = NimFindings_new
    /\ report = None
    /\ IdleClient
    /\ IdleRetry

\* scan_directory up to files.par_iter(): the walk and the filters give the
\* vector of files, in the order the walker came to them.
CollectFiles ==
    /\ pipe.pc = "scanning"
    /\ \E order \in Orders(walk.pending) :
       \E files \in {collect_files(walk.root, "r1", order)} :
         /\ par' = [items |-> files,
                    pc |-> [i \in 1..Len(files) |-> "todo"],
                    slots |-> [i \in 1..Len(files) |-> None]]
         /\ walk' = [walk EXCEPT
                       !.pending = {},
                       !.visited = {[entry |-> e,
                                     stage |-> visit_entry(walk.root, "r1", e).stage] :
                                        e \in walk.pending}]
    /\ pipe' = [pipe EXCEPT !.pc = "workers"]
    /\ UNCHANGED <<retryVars, clientVars, findingVars, report, fs>>

\* A worker takes a file: scan_file up to std::fs::read_to_string(path).
WorkerRead ==
    /\ pipe.pc = "workers"
    /\ \E i \in 1..Len(par.items) :
         /\ par.pc[i] = "todo"
         /\ par' = [par EXCEPT !.pc[i] = "read"]
    /\ UNCHANGED <<retryVars, clientVars, findingVars, pipe, report, walk, fs>>

\* The worker scans the lines it read, or returns the empty vectors if the read
\* failed; its result goes to the place of its file in the collected vector.
WorkerScan ==
    /\ pipe.pc = "workers"
    /\ \E i \in 1..Len(par.items) :
         /\ par.pc[i] = "read"
         /\ par' = [par EXCEPT
                      !.pc[i] = "done",
                      !.slots[i] = Some(scan_file(walk.root \o <<"/">> \o par.items[i].path,
                                                  "r1", walk.root, par.items[i].content))]
    /\ UNCHANGED <<retryVars, clientVars, findingVars, pipe, report, walk, fs>>

\* collect() has every result: the merge loop, the return, and run_scan's
\* all_local.extend(local), all_hosted.extend(hosted).
MergeResults ==
    /\ pipe.pc = "workers"
    /\ \A i \in 1..Len(par.items) : par.pc[i] = "done"
    /\ \E merged \in {merge_results([i \in 1..Len(par.items) |-> unwrap(par.slots[i])],
                                    [local |-> <<>>, hosted |-> <<>>])} :
         /\ walk' = [walk EXCEPT !.local = merged.local, !.hosted = merged.hosted]
         /\ all_local' = all_local \o merged.local
         /\ all_hosted' = all_hosted \o merged.hosted
    /\ pipe' = [pipe EXCEPT !.pc = "scanned"]
    /\ UNCHANGED <<retryVars, clientVars, source_code, actions_workflow, report, par, fs>>

NextWorkers == CollectFiles \/ WorkerRead \/ WorkerScan \/ MergeResults

SpecWorkers == InitWorkers /\ [][NextWorkers]_vars

\* What the scan of one file by itself finds: nothing if it cannot be read.
OwnLocal(entry) ==
    IF entry.content = None THEN <<>>
    ELSE scan_local(unwrap(entry.content), 1, entry.path, "r1")
OwnHosted(entry) ==
    IF entry.content = None THEN <<>>
    ELSE scan_hosted(unwrap(entry.content), 1, entry.path, "r1", IsYaml(entry.path))

RECURSIVE AllOwnLocal(_)
AllOwnLocal(items) ==
    IF items = <<>> THEN <<>> ELSE OwnLocal(Head(items)) \o AllOwnLocal(Tail(items))
RECURSIVE AllOwnHosted(_)
AllOwnHosted(items) ==
    IF items = <<>> THEN <<>> ELSE OwnHosted(Head(items)) \o AllOwnHosted(Tail(items))

\* C21: whatever the interleaving of the workers, the result of a finished
\* worker is the findings of its own file (nothing for a file that cannot be
\* read), nothing is merged before every worker has finished, and the merged
\* result is the concatenation of the per-file results of the qualifying files.
C21_MergedIsConcatenation ==
    /\ pipe.pc = "workers" =>
         /\ all_local = <<>> /\ all_hosted = <<>>
         /\ \A i \in 1..Len(par.items) :
              par.pc[i] = "done" =>
                 par.slots[i] = Some([local |-> OwnLocal(par.items[i]),
                                      hosted |-> OwnHosted(par.items[i])])
    /\ pipe.pc = "scanned" =>
         /\ \A i \in 1..Len(par.items) : par.pc[i] = "done"
         /\ all_local = AllOwnLocal(par.items)
         /\ all_hosted = AllOwnHosted(par.items)
         /\ \A v \in walk.visited :
              Cardinality({i \in 1..Len(par.items) : par.items[i] = v.entry})
                 = IF v.stage = "scanned" THEN 1 ELSE 0

\* Reached: the file that cannot be read is the first of the vector, and the
\* merged result is the one finding of the second file.
C21_Witness ==
    /\ pipe.pc = "scanned"
    /\ Len(par.items) = 2
    /\ par.items[1].content = None
    /\ par.items[2].path = <<"Dockerfile">>
    /\ Len(all_local) = 1
    /\ all_local[1].file_path = <<"Dockerfile">>

\* ---------------------------------------------------------------------------
\* run_scan from the loaded configuration to the clones (SpecClone)
\* ---------------------------------------------------------------------------

MaxRepos == 2

\* str::trim on tokens: blanks at both ends are dropped.
RECURSIVE trim_start(_)
trim_start(s) == IF s # <<>> /\ Head(s) = " " THEN trim_start(Tail(s)) ELSE s
RECURSIVE trim_end(_)
trim_end(s) ==
    IF s # <<>> /\ s[Len(s)] = " " THEN trim_end(SubSeq(s, 1, Len(s) - 1)) ELSE s
trim(s) == trim_end(trim_start(s))

is_valid_git_url(url) ==
    \/ starts_with(url, <<"https://">>)
    \/ starts_with(url, <<"http://">>)
    \/ starts_with(url, <<"git@">>)
    \/ starts_with(url, <<"ssh://">>)

\* The loop of validate_config from repos[index] on: the errors pushed.
RECURSIVE validate_repos(_, _, _)
validate_repos(repos, index, seen_names) ==
    IF index > Len(repos) THEN <<>>
    ELSE IF trim(repos[index].name) = <<>>
    THEN <<"EmptyName">> \o validate_repos(repos, index + 1, seen_names)
    ELSE (IF repos[index].name \in seen_names THEN <<"DuplicateName">> ELSE <<>>)
         \o (IF trim(repos[index].url) = <<>> THEN <<"EmptyUrl">>
             ELSE IF ~is_valid_git_url(repos[index].url) THEN <<"InvalidUrl">>
             ELSE <<>>)
         \o validate_repos(repos, index + 1, seen_names \cup {repos[index].name})

\* validate_config: Ok(()) iff no error was pushed.
validate_config(config) ==
    IF (IF config.repos = <<>> THEN <<"EmptyRepoList">> ELSE <<>>)
          \o validate_repos(config.repos, 1, {}) = <<>>
    THEN Ok(<<>>)
    ELSE Err("Configuration validation failed")

filter_enabled(repos) == SelectSeq(repos, LAMBDA r : r.enabled)

\* clone_repo: let dir_name = repo.name.replace('/', "_").replace('\\', "_")
dir_name(name) == replace(replace(name, "/", "_"), "\\", "_")

\* clone_repo: let target_dir = workdir.join(&dir_name)
target_dir(workdir, repo) == workdir \o <<"/">> \o dir_name(repo.name)

\* --workdir work
Workdir == <<"work">>

RepoNames ==
    {<<>>, <<" ">>, <<"rag">>, <<"nvidia", "/", "rag">>, <<"nvidia", "_", "rag">>}
RepoUrls ==
    {<<>>, <<"ftp://", "host/rag">>, <<"https://", "github.com/NVIDIA/rag">>,
     <<"git@", "github.com:me/nvidia_rag">>}
RepoConfigs == [name : RepoNames, url : RepoUrls, enabled : BOOLEAN]

\* The working directory before the run: empty, or with the checkout an
\* earlier run left.
WorkdirsBefore ==
    {EmptyMap,
     insert(EmptyMap, Workdir \o <<"/">> \o <<"nvidia", "_", "rag">>,
            [origin |-> <<"https://", "github.com/NVIDIA/rag">>, users |-> {}])}

InitClone ==
    /\ \E repos \in UNION {[1..n -> RepoConfigs] : n \in 0..MaxRepos} :
         ret = [op |-> "load_config", arg |-> <<>>, result |-> Ok([repos |-> repos]),
                n |-> 0]
    /\ fs \in WorkdirsBefore
    /\ par = NoPar
    /\ client = [api_key |-> "", local_nim_cache |-> <<>>, hosted_nim_cache |-> <<>>,
                 function_list_cache |-> None]
    /\ net = <<>>
    /\ obs = NoObs
    /\ all_local = <<>>
    /\ all_hosted = <<>>
    /\ source_code = NimFindings_new
    /\ actions_workflow = NimFindings_new
    /\ pipe = [pc |-> "loaded", phase |-> 0, idx |-> 0, api_key |-> None,
               before |-> None, built |-> FALSE]
    /\ report = None
    /\ walk = NoWalk
    /\ IdleRetry

\* run_scan from validate_config to repos.par_iter() in clone_all_repos: a
\* rejected configuration ends the run with an error, an accepted one without
\* enabled repositories ends it with Ok.
ValidateConfig ==
    /\ pipe.pc = "loaded"
    /\ \E valid \in {validate_config(ret.result.val)} :
         IF ~valid.ok
         THEN /\ pipe' = [pipe EXCEPT !.pc = "rejected"]
              /\ UNCHANGED par
         ELSE IF filter_enabled(ret.result.val.repos) = <<>>
         THEN /\ pipe' = [pipe EXCEPT !.pc = "done"]
              /\ UNCHANGED par
         ELSE /\ pipe' = [pipe EXCEPT !.pc = "cloning"]
              /\ par' = [items |-> filter_enabled(ret.result.val.repos),
                         pc |-> [i \in 1..Len(filter_enabled(ret.result.val.repos))
                                    |-> "todo"],
                         slots |-> [i \in 1..Len(filter_enabled(ret.result.val.repos))
                                       |-> None]]
    /\ UNCHANGED <<retryVars, clientVars, findingVars, report, walk, fs>>

\* clone_repo: if target_dir.exists()
CloneCheck ==
    /\ pipe.pc = "cloning"
    /\ \E i \in 1..Len(par.items) :
         /\ par.pc[i] = "todo"
         /\ par' = [par EXCEPT !.pc[i] =
                       IF target_dir(Workdir, par.items[i]) \in DOMAIN fs
                       THEN "exists" ELSE "absent"]
    /\ UNCHANGED <<retryVars, clientVars, findingVars, pipe, report, walk, fs>>

\* clone_repo on an existing directory: update_existing_repo runs git fetch,
\* checkout and pull in it, and the directory is returned whether they succeed
\* or not.
CloneUpdate ==
    /\ pipe.pc = "cloning"
    /\ \E i \in 1..Len(par.items) :
         /\ par.pc[i] = "exists"
         /\ fs' = [fs EXCEPT ![target_dir(Workdir, par.items[i])].users =
                       @ \cup {par.items[i].name}]
         /\ par' = [par EXCEPT !.pc[i] = "done",
                               !.slots[i] = Some(Ok(target_dir(Workdir, par.items[i])))]
    /\ UNCHANGED <<retryVars, clientVars, findingVars, pipe, report, walk>>

\* clone_repo on a directory that did not exist at the check: git clone. It
\* fails if the directory has appeared since, and may fail on its own.
CloneRun ==
    /\ pipe.pc = "cloning"
    /\ \E i \in 1..Len(par.items) :
         /\ par.pc[i] = "absent"
         /\ \E cloned \in BOOLEAN :
              IF cloned /\ target_dir(Workdir, par.items[i]) \notin DOMAIN fs
              THEN /\ fs' = insert(fs, target_dir(Workdir, par.items[i]),
                                   [origin |-> par.items[i].url,
                                    users |-> {par.items[i].name}])
                   /\ par' = [par EXCEPT
                                !.pc[i] = "done",
                                !.slots[i] = Some(Ok(target_dir(Workdir, par.items[i])))]
              ELSE /\ fs' = fs
                   /\ par' = [par EXCEPT !.pc[i] = "done",
                                         !.slots[i] = Some(Err("Git clone failed"))]
    /\ UNCHANGED <<retryVars, clientVars, findingVars, pipe, report, walk>>

\* collect() has every CloneResult: clone_all_repos returns.
CloneCollect ==
    /\ pipe.pc = "cloning"
    /\ \A i \in 1..Len(par.items) : par.pc[i] = "done"
    /\ pipe' = [pipe EXCEPT !.pc = "cloned"]
    /\ ret' = [op |-> "clone_all_repos", arg |-> par.items,
               result |-> Ok([i \in 1..Len(par.items) |-> unwrap(par.slots[i])]),
               n |-> ret.n + 1]
    /\ UNCHANGED <<rq, client, net, obs, findingVars, report, walk, par, fs>>

NextClone == ValidateConfig \/ CloneCheck \/ CloneUpdate \/ CloneRun \/ CloneCollect

SpecClone == InitClone /\ [][NextClone]_vars

\* C30: for an accepted configuration no two repositories of the run have the
\* same target directory, and no directory of the working directory is cloned
\* into, reused or updated for more than one repository.
C30_OwnTargetDirectory ==
    /\ pipe.pc \in {"cloning", "cloned"} =>
         \A i, j \in 1..Len(par.items) :
             i # j => target_dir(Workdir, par.items[i]) # target_dir(Workdir, par.items[j])
    /\ \A d \in DOMAIN fs : Cardinality(fs[d].users) <= 1

\* The second repository is given the checkout of the first.
SharedCheckout ==
    /\ pipe.pc = "cloned"
    /\ Len(par.items) = 2
    /\ par.items[1].name = <<"nvidia", "/", "rag">>
    /\ par.items[2].name = <<"nvidia", "_", "rag">>
    /\ par.items[1].url # par.items[2].url
    /\ ret.result.val[1] = ret.result.val[2]
    /\ ret.result.val[1].ok
    /\ fs[ret.result.val[1].val].origin = par.items[1].url

====
